---- MODULE Spec2Model ----
(***************************************************************************)
(* Ticket ingestion and tracking engine of ShogaSuto.                      *)
(*                                                                         *)
(*   src/ticketjam.py  TicketInfo, TicketDatabase (the tracking store),    *)
(*                     TicketJamScraper (fetch + extraction)               *)
(*   src/bot.py        scrape_tickets (the 5-minute timer), manual_scrape, *)
(*                     post_tickets, post_unposted_tickets (notification)  *)
(*                                                                         *)
(* SpecStore drives the store API (insert_or_update_ticket,                *)
(* delete_removed_tickets, mark_tickets_as_posted) with arbitrary calls.   *)
(* Spec is the bot process: the asyncio event loop running the timer task  *)
(* and the operator's commands, interleaved at their await points.         *)
(* SpecTimer is the timer task with /scrape_now, SpecPasses the timer task *)
(* with both notification passes, and SpecWriters two callers of           *)
(* insert_or_update_ticket on one database file, interleaved between the   *)
(* SELECT and the write.  SpecLive is the timer task alone under the       *)
(* fairness of its event loop.  SpecMain is the command line of            *)
(* ticketjam.py.  SpecFormat, SpecIdentity, SpecExtract and SpecValidate   *)
(* apply format_price_change_info, generate_ticket_id, scrape_tickets'     *)
(* extraction and _is_valid_ticket to bounded sets of inputs, and          *)
(* SpecUnposted, SpecNotifications and SpecWalk do so for                  *)
(* get_unposted_tickets over both column orders, get_bot_notifications     *)
(* and the walk up from a price element.  SpecMonitor is                   *)
(* run_continuous_bot over two urls until Ctrl+C, and SpecSchedules the    *)
(* timer of bot.py or the monitor of ticketjam.py, running on.             *)
(***************************************************************************)
EXTENDS Naturals, Sequences, FiniteSets

\* ------------------------------------------------------------------ bounds

\* The wall clock runs over 0..MaxTime.
MaxTime == 1
\* A run appends at most MaxHistory rows to price_history.
MaxHistory == 2
\* A fetched page yields at most MaxPage accepted containers.
MaxPage == 2

\* ------------------------------------------------------------- value sets

\* ticket_id values (the last path segment of a listing's URL).
Ids == {"A", "B"}
\* price strings as the extractor normalises them.
Prices == {"1,000円", "1,200円"}
\* Two renderings of a listing's descriptive text: every best-effort field of
\* a scraped candidate is drawn from the same rendering.
Texts == {"a", "b"}

VARIABLES
  tickets,        \* table tickets: a set of rows
  price_history,  \* table price_history: rows in AUTOINCREMENT id order
  now,            \* the wall clock (datetime.now() and CURRENT_TIMESTAMP)
  call,           \* the last call: its arguments and what it returned
  cyc,            \* the timer's cycle: where scrape_tickets stands, its locals
  pass,           \* per notification pass: where it stands, its locals, and
                  \* the ids whose send raised in its last run
  last_sent,      \* the ids the last completed pass sent, unchanged since
  undelivered,    \* the ticket_ids whose latest price_history row was
                  \* appended after their last successful send
  txn,            \* per concurrent writer: where its insert_or_update_ticket
                  \* call stands and what its SELECT returned
  db_file,        \* whether the database file ticketjam.db exists
  columns,        \* the columns of table tickets, in the order of SELECT *
  mon             \* ticketjam.py monitor: where run_continuous_bot stands,
                  \* the locals of its cycle

store == <<tickets, price_history>>
proc == <<cyc, pass, last_sent, undelivered, txn>>
vars ==
  <<tickets, price_history, now, call, cyc, pass, last_sent, undelivered, txn,
    db_file, columns, mon>>

\* ------------------------------------------------------------ TicketInfo

\* A scraped candidate.  TicketInfo's own first_seen/last_seen never reach the
\* store: insert_or_update_ticket overwrites them with current_time.
TicketInfo(id, price, text) ==
  [ticket_id |-> id, title |-> text, event_name |-> text, date |-> text,
   time |-> text, venue |-> text, location |-> text, price |-> price,
   quantity |-> text, seat_info |-> text, description |-> text,
   days_remaining |-> text, is_instant_buy |-> (text = "b"),
   url |-> <<id, text>>, status |-> "active"]

Candidates == {TicketInfo(id, p, x) : id \in Ids, p \in Prices, x \in Texts}

\* ------------------------------------------------------- TicketDatabase

\* SELECT ... FROM tickets WHERE ticket_id = ?
Existing(T, id) == {r \in T : r.ticket_id = id}

\* The INSERT leaving last_seen at what TicketInfo.__post_init__ stamped when
\* the candidate was built, a tick before the store call.
NewRow_StaleLastSeen(ticket, current_time) ==
  [ticket_id |-> ticket.ticket_id, title |-> ticket.title,
   event_name |-> ticket.event_name, date |-> ticket.date,
   time |-> ticket.time, venue |-> ticket.venue,
   location |-> ticket.location, price |-> ticket.price,
   quantity |-> ticket.quantity, seat_info |-> ticket.seat_info,
   description |-> ticket.description,
   days_remaining |-> ticket.days_remaining,
   is_instant_buy |-> ticket.is_instant_buy, url |-> ticket.url,
   first_seen |-> current_time, last_seen |-> current_time + 1,
   status |-> ticket.status, posted |-> FALSE,
   created_at |-> current_time, updated_at |-> current_time]

\* The row INSERT INTO tickets writes for a new ticket at current_time;
\* created_at and updated_at take their default, CURRENT_TIMESTAMP.
NewRow(ticket, current_time) ==
  [ticket_id |-> ticket.ticket_id, title |-> ticket.title,
   event_name |-> ticket.event_name, date |-> ticket.date,
   time |-> ticket.time, venue |-> ticket.venue,
   location |-> ticket.location, price |-> ticket.price,
   quantity |-> ticket.quantity, seat_info |-> ticket.seat_info,
   description |-> ticket.description,
   days_remaining |-> ticket.days_remaining,
   is_instant_buy |-> ticket.is_instant_buy, url |-> ticket.url,
   first_seen |-> current_time, last_seen |-> current_time,
   status |-> ticket.status, posted |-> FALSE,
   created_at |-> current_time, updated_at |-> current_time]

\* The UPDATE also setting first_seen, as the INSERT does.
UpdatedRow_ResetsFirstSeen(r, ticket, current_time) ==
  [r EXCEPT !.title = ticket.title, !.event_name = ticket.event_name,
            !.date = ticket.date, !.time = ticket.time,
            !.venue = ticket.venue, !.location = ticket.location,
            !.price = ticket.price, !.quantity = ticket.quantity,
            !.seat_info = ticket.seat_info,
            !.description = ticket.description,
            !.days_remaining = ticket.days_remaining,
            !.is_instant_buy = ticket.is_instant_buy, !.url = ticket.url,
            !.first_seen = current_time,
            !.last_seen = current_time, !.status = ticket.status,
            !.updated_at = current_time]

\* The columns both UPDATE statements set from the candidate.
UpdatedRow(r, ticket, current_time) ==
  [r EXCEPT !.title = ticket.title, !.event_name = ticket.event_name,
            !.date = ticket.date, !.time = ticket.time,
            !.venue = ticket.venue, !.location = ticket.location,
            !.price = ticket.price, !.quantity = ticket.quantity,
            !.seat_info = ticket.seat_info,
            !.description = ticket.description,
            !.days_remaining = ticket.days_remaining,
            !.is_instant_buy = ticket.is_instant_buy, !.url = ticket.url,
            !.last_seen = current_time, !.status = ticket.status,
            !.updated_at = current_time]

\* The price-changed UPDATE without "posted = 0".
UpdatePriceChanged_KeepsPosted(r, ticket, current_time) ==
  UpdatedRow(r, ticket, current_time)

\* UPDATE tickets SET ..., posted = 0 WHERE ticket_id = ?   (price changed)
UpdatePriceChanged(r, ticket, current_time) ==
  [UpdatedRow(r, ticket, current_time) EXCEPT !.posted = FALSE]

\* The price-equal UPDATE carrying the other statement's "posted = 0".
UpdateSamePrice_ResetsPosted(r, ticket, current_time) ==
  [UpdatedRow(r, ticket, current_time) EXCEPT !.posted = FALSE]

\* UPDATE tickets SET ... WHERE ticket_id = ?               (price equal)
UpdateSamePrice(r, ticket, current_time) ==
  UpdatedRow(r, ticket, current_time)

\* INSERT INTO price_history (ticket_id, price) VALUES (?, ?)
HistoryRow(H, ticket, current_time) ==
  [id |-> Len(H) + 1, ticket_id |-> ticket.ticket_id, price |-> ticket.price,
   recorded_at |-> current_time]

\* The call without its SELECT: every candidate is inserted, into a table
\* without PRIMARY KEY.
insert_or_update_ticket_AlwaysInserts(T, H, ticket, current_time) ==
  [tickets |-> T \cup {NewRow(ticket, current_time)},
   price_history |-> Append(H, HistoryRow(H, ticket, current_time)),
   is_new |-> TRUE, action |-> "New ticket added"]

\* insert_or_update_ticket: the tables after the call and (is_new, action).
insert_or_update_ticket(T, H, ticket, current_time) ==
  LET existing == Existing(T, ticket.ticket_id) IN
  IF existing # {}
  THEN LET existing_price == (CHOOSE r \in existing : TRUE).price
           price_changed == existing_price # ticket.price
       IN IF price_changed
          THEN [tickets |->
                  {IF r \in existing
                   THEN UpdatePriceChanged(r, ticket, current_time)
                   ELSE r : r \in T},
                price_history |->
                  Append(H, HistoryRow(H, ticket, current_time)),
                is_new |-> FALSE, action |-> "Price changed"]
          ELSE [tickets |->
                  {IF r \in existing
                   THEN UpdateSamePrice(r, ticket, current_time)
                   ELSE r : r \in T},
                price_history |-> H,
                is_new |-> FALSE, action |-> "Updated last_seen"]
  ELSE [tickets |-> T \cup {NewRow(ticket, current_time)},
        price_history |-> Append(H, HistoryRow(H, ticket, current_time)),
        is_new |-> TRUE, action |-> "New ticket added"]

\* The DELETE without "status = 'active'".
Removed_AnyStatus(T, ids) ==
  {r \in T : r.ticket_id \notin ids}

\* The rows delete_removed_tickets deletes for a list holding the ids `ids`.
Removed(T, ids) ==
  IF ids # {}
  THEN {r \in T : r.status = "active" /\ r.ticket_id \notin ids}
  ELSE {r \in T : r.status = "active"}

\* delete_removed_tickets: the table after the call and deleted_count.
delete_removed_tickets(T, ids) ==
  [tickets |-> T \ Removed(T, ids),
   deleted_count |-> Cardinality(Removed(T, ids))]

\* The UPDATE without its WHERE clause.
mark_tickets_as_posted_AllRows(T, ids, current_time) ==
  {[r EXCEPT !.posted = TRUE, !.updated_at = current_time] : r \in T}

\* mark_tickets_as_posted: UPDATE tickets SET posted = 1, updated_at =
\* CURRENT_TIMESTAMP WHERE ticket_id IN (ids).
mark_tickets_as_posted(T, ids, current_time) ==
  {IF r.ticket_id \in ids
   THEN [r EXCEPT !.posted = TRUE, !.updated_at = current_time]
   ELSE r : r \in T}

\* ORDER BY recorded_at DESC.
Earlier_Descending(a, b) ==
  \/ a.recorded_at > b.recorded_at
  \/ a.recorded_at = b.recorded_at /\ a.id > b.id

\* ORDER BY recorded_at: rows recorded at one reading of the clock come in
\* rowid order, the order SQLite's merge sort leaves them in.
Earlier(a, b) ==
  \/ a.recorded_at < b.recorded_at
  \/ a.recorded_at = b.recorded_at /\ a.id < b.id

\* get_price_history: SELECT price, recorded_at FROM price_history WHERE
\* ticket_id = ? ORDER BY recorded_at, as the list of dictionaries returned.
get_price_history(H, id) ==
  LET rows == {H[n] : n \in {m \in 1..Len(H) : H[m].ticket_id = id}}
  IN [k \in 1..Cardinality(rows) |->
        LET r == CHOOSE x \in rows :
                   Cardinality({y \in rows : Earlier(y, x)}) = k - 1
        IN [price |-> r.price, recorded_at |-> r.recorded_at]]

\* status_filter = None, the default; `if status_filter:` takes it, like the
\* empty string, as no filter.
NoFilter == ""

\* The values get_unposted_tickets is called with: no filter, the two valid
\* ones, and one that is not in ['active', 'sold'].
Filters == {NoFilter, "active", "sold", "expired"}

\* The query without its status condition.
get_unposted_tickets_IgnoresFilter(T, status_filter) ==
  {r \in T : r.posted = FALSE}

\* get_unposted_tickets(status_filter): the rows of the list returned, those
\* of SELECT * FROM tickets WHERE posted = 0 [AND status = ?]; [] for a
\* filter that is not valid, after two lines on stderr.
get_unposted_tickets(T, status_filter) ==
  IF status_filter # NoFilter
  THEN IF status_filter \notin {"active", "sold"}
       THEN {}
       ELSE {r \in T : r.posted = FALSE /\ r.status = status_filter}
  ELSE {r \in T : r.posted = FALSE}

\* The columns of table tickets that every version of the schema holds, in
\* the order of CREATE TABLE.
FirstColumns ==
  <<"ticket_id", "title", "event_name", "date", "time", "venue", "location",
    "price", "quantity", "seat_info", "description", "days_remaining",
    "is_instant_buy", "url", "first_seen", "last_seen", "status">>

\* Table tickets as init_database's CREATE TABLE makes it on a new file.
Fresh == FirstColumns \o <<"posted", "created_at", "updated_at">>

\* Table tickets of a file made before the column posted existed:
\* CREATE TABLE IF NOT EXISTS leaves it, ALTER TABLE ... ADD COLUMN posted
\* puts the column last.
Migrated == FirstColumns \o <<"created_at", "updated_at", "posted">>

\* ------------------------------------------------------------ store calls

NoTicket == TicketInfo("", "", "")

NoCall ==
  [op |-> "none", ticket |-> NoTicket, is_new |-> FALSE,
   action |-> "", count |-> 0, was_posted |-> FALSE]

\* A record left in the database file by an earlier run (init_database is
\* CREATE TABLE IF NOT EXISTS), of a listing that is no longer scraped and
\* carries the reserved status sold.
SoldRow == [NewRow(TicketInfo("C", "1,000円", "a"), 0) EXCEPT !.status = "sold"]
SoldHistory == <<HistoryRow(<<>>, TicketInfo("C", "1,000円", "a"), 0)>>

\* The price_history rows of this run's listings.
Recorded(H) == SelectSeq(H, LAMBDA h : h.ticket_id \in Ids)

InitStore ==
  /\ tickets = {SoldRow}
  /\ price_history = SoldHistory

\* A client calls insert_or_update_ticket(ticket).
Upsert(ticket) ==
  LET res == insert_or_update_ticket(tickets, price_history, ticket, now) IN
  /\ Len(Recorded(res.price_history)) <= MaxHistory
  /\ tickets' = res.tickets
  /\ price_history' = res.price_history
  /\ call' = [NoCall EXCEPT !.op = "upsert", !.ticket = ticket,
                !.is_new = res.is_new, !.action = res.action,
                !.was_posted =
                   \E r \in Existing(tickets, ticket.ticket_id) : r.posted]
  /\ UNCHANGED <<now, proc, db_file, columns, mon>>

\* A client calls delete_removed_tickets(ids).
Prune(ids) ==
  LET res == delete_removed_tickets(tickets, ids) IN
  /\ tickets' = res.tickets
  /\ call' = [NoCall EXCEPT !.op = "prune", !.count = res.deleted_count]
  /\ UNCHANGED <<price_history, now, proc, db_file, columns, mon>>

\* The operator runs `posted <ticket_id...>`, which needs at least one id.
MarkPosted(ids) ==
  /\ tickets' = mark_tickets_as_posted(tickets, ids, now)
  /\ call' = [NoCall EXCEPT !.op = "mark"]
  /\ UNCHANGED <<price_history, now, proc, db_file, columns, mon>>

\* Time passes.
Tick ==
  /\ now < MaxTime
  /\ now' = now + 1
  /\ UNCHANGED <<tickets, price_history, call, proc, db_file, columns, mon>>

\* post_tickets (awaited by the timer) and post_unposted_tickets
\* (/post_tickets).
Passes == {"post_tickets", "post_unposted_tickets"}

IdleCycle ==
  [pc |-> "idle", fetch |-> "none", tickets |-> <<>>,
   current_ticket_ids |-> <<>>, error |-> FALSE]

\* run_continuous_bot has not been started.
IdleMonitor ==
  [pc |-> "off", url |-> 1, tickets |-> <<>>, current_ticket_ids |-> <<>>,
   pruned |-> FALSE, error |-> "none"]

\* Two processes on one database file (the bot and a ticketjam.py run), each
\* in a call of insert_or_update_ticket.
Writers == {"w1", "w2"}

IdleTxn ==
  [pc |-> "idle", ticket |-> NoTicket, existing |-> {},
   before |-> <<{}, <<>>>>, raised |-> FALSE]

IdlePass ==
  [pc |-> "idle", unposted_tickets |-> <<>>, i |-> 1,
   ticket_ids_to_mark |-> <<>>, failed |-> {}]

InitProc ==
  /\ cyc = IdleCycle
  /\ pass = [p \in Passes |-> IdlePass]
  /\ last_sent = {}
  /\ undelivered = {}
  /\ txn = [w \in Writers |-> IdleTxn]

InitS ==
  /\ InitStore
  /\ db_file = TRUE
  /\ columns = Fresh
  /\ mon = IdleMonitor
  /\ now = 0
  /\ call = NoCall
  /\ InitProc

NextS ==
  \/ \E ticket \in Candidates : Upsert(ticket)
  \/ \E ids \in SUBSET Ids : Prune(ids)
  \/ \E ids \in (SUBSET Ids) \ {{}} : MarkPosted(ids)
  \/ Tick

SpecStore == InitS /\ [][NextS]_vars

\* ------------------------------------------------- the store's contract

\* The stored row of ticket_id id (the table holds at most one).
Row(T, id) == CHOOSE r \in Existing(T, id) : TRUE

\* H2 is H1 with exactly one row appended, for ticket_id id at price p.
AppendsOne(H1, H2, id, p) ==
  /\ Len(H2) = Len(H1) + 1
  /\ SubSeq(H2, 1, Len(H1)) = H1
  /\ H2[Len(H2)].ticket_id = id
  /\ H2[Len(H2)].price = p

\* C1 - Price change triggers re-notify: an upsert of a stored, posted id at a
\* price other than the stored one sets posted = false, appends exactly one
\* history row carrying the new price, stores the new price and returns
\* (false, price changed).
C1_PriceChangeRenotifies ==
  [][\A ticket \in Candidates :
       ( /\ call'.op = "upsert" /\ call'.ticket = ticket
         /\ Upsert(ticket)
         /\ \E r \in Existing(tickets, ticket.ticket_id) :
               r.posted /\ r.price # ticket.price )
       => /\ Cardinality(Existing(tickets', ticket.ticket_id)) = 1
          /\ Row(tickets', ticket.ticket_id).posted = FALSE
          /\ Row(tickets', ticket.ticket_id).price = ticket.price
          /\ AppendsOne(price_history, price_history',
                        ticket.ticket_id, ticket.price)
          /\ call'.is_new = FALSE
          /\ call'.action = "Price changed"]_vars

\* A posted record has just been upserted at a new price.
C1_Witness ==
  /\ call.op = "upsert"
  /\ call.action = "Price changed"
  /\ call.was_posted
  /\ Len(get_price_history(price_history, call.ticket.ticket_id)) = 2

\* C2 - Idempotent re-upsert: an upsert of a stored id at the stored price
\* returns (false, touched), adds no history row and leaves posted as it was.
C2_IdempotentReupsert ==
  [][\A ticket \in Candidates :
       ( /\ call'.op = "upsert" /\ call'.ticket = ticket
         /\ Upsert(ticket)
         /\ \E r \in Existing(tickets, ticket.ticket_id) :
               r.price = ticket.price )
       => /\ call'.is_new = FALSE
          /\ call'.action = "Updated last_seen"
          /\ price_history' = price_history
          /\ Cardinality(Existing(tickets', ticket.ticket_id)) = 1
          /\ Row(tickets', ticket.ticket_id).posted
               = Row(tickets, ticket.ticket_id).posted]_vars

\* A posted record has just been upserted again at its stored price.
C2_Witness ==
  /\ call.op = "upsert"
  /\ call.action = "Updated last_seen"
  /\ call.was_posted
  /\ Row(tickets, call.ticket.ticket_id).posted

\* C3 - Insert: an upsert of an id that is not stored adds one record with
\* first_seen = last_seen and posted = false, appends exactly one history row
\* at the candidate's price and returns isNew = true.
C3_InsertNew ==
  [][\A ticket \in Candidates :
       ( /\ call'.op = "upsert" /\ call'.ticket = ticket
         /\ Upsert(ticket)
         /\ Existing(tickets, ticket.ticket_id) = {} )
       => /\ Cardinality(Existing(tickets', ticket.ticket_id)) = 1
          /\ tickets' \ Existing(tickets', ticket.ticket_id) = tickets
          /\ Row(tickets', ticket.ticket_id).first_seen
               = Row(tickets', ticket.ticket_id).last_seen
          /\ Row(tickets', ticket.ticket_id).posted = FALSE
          /\ Row(tickets', ticket.ticket_id).price = ticket.price
          /\ AppendsOne(price_history, price_history',
                        ticket.ticket_id, ticket.price)
          /\ call'.is_new = TRUE]_vars

\* A second record has just been inserted, after the clock moved.
C3_Witness ==
  /\ call.op = "upsert"
  /\ call.is_new
  /\ now > 0
  /\ \E r \in tickets : r.ticket_id = call.ticket.ticket_id /\ r.first_seen = now
  /\ Cardinality(tickets) = 2

\* The columns C4 names besides last_seen.
KeptColumns(r) ==
  <<r.title, r.event_name, r.date, r.time, r.venue, r.location, r.quantity,
    r.seat_info, r.description, r.days_remaining, r.is_instant_buy, r.url,
    r.status, r.first_seen, r.posted>>

\* C4 - An upsert of a stored id at the stored price changes last_seen only:
\* title, event_name, date, time, venue, location, quantity, seat_info,
\* description, days_remaining, is_instant_buy, url, status, first_seen and
\* posted keep their stored values whatever the candidate carries.
C4_TouchChangesLastSeenOnly ==
  [][\A ticket \in Candidates :
       ( /\ call'.op = "upsert" /\ call'.ticket = ticket
         /\ Upsert(ticket)
         /\ \E r \in Existing(tickets, ticket.ticket_id) :
               r.price = ticket.price )
       => KeptColumns(Row(tickets', ticket.ticket_id))
            = KeptColumns(Row(tickets, ticket.ticket_id))]_vars

\* C5 - Prune deletes only missing actives: after prune(S), for any S, the
\* records left are exactly the previous ones that are not active or have an
\* id in S, each unchanged; the count returned is the number removed; the
\* price history is untouched.
C5_PruneOnlyMissingActives ==
  [][\A ids \in SUBSET Ids :
       (call'.op = "prune" /\ Prune(ids))
       => /\ tickets' = {r \in tickets :
                           r.status # "active" \/ r.ticket_id \in ids}
          /\ call'.count = Cardinality(tickets) - Cardinality(tickets')
          /\ price_history' = price_history]_vars

\* A prune has just removed a record and left both a listed active record and
\* a record that is not active.
C5_Witness ==
  /\ call.op = "prune"
  /\ call.count = 1
  /\ \E r \in tickets : r.status = "active"
  /\ \E r \in tickets : r.status # "active"

HistoryIds == Ids \cup {SoldRow.ticket_id}

\* C16: price history is append-only and time-ordered: across every upsert,
\* prune and markPosted, the list get_price_history(id) returns after the
\* call has the list it returned before as a prefix, and its entries are in
\* non-decreasing recorded_at order.
C16_HistoryAppendOnly ==
  [][\A id \in HistoryIds :
       LET old == get_price_history(price_history, id)
           new == get_price_history(price_history', id)
       IN /\ Len(new) >= Len(old)
          /\ SubSeq(new, 1, Len(old)) = old
          /\ \A k \in 1..(Len(new) - 1) :
               new[k].recorded_at <= new[k + 1].recorded_at]_vars

\* A prune has run on a store whose history of one id has an entry from
\* before the clock moved and one from after.
C16_Witness ==
  /\ call.op = "prune"
  /\ \E id \in Ids :
       LET h == get_price_history(price_history, id)
       IN Len(h) = 2 /\ h[1].recorded_at < h[2].recorded_at

\* C17 as stated: for every record in the store, entry 0 of the history of its
\* ticket_id is the price the record had at its first_seen: that entry was
\* recorded at the record's first_seen and, for a record that has just been
\* inserted, carries the record's price.
C17_EntryZeroIsFirstPrice ==
  \A r \in tickets :
    LET h == get_price_history(price_history, r.ticket_id)
    IN /\ Len(h) >= 1
       /\ h[1].recorded_at = r.first_seen
       /\ (call.op = "upsert" /\ call.is_new
           /\ call.ticket.ticket_id = r.ticket_id) => h[1].price = r.price

\* The columns of a TicketRecord: a row without its audit columns created_at
\* and updated_at.
Record(r) ==
  [ticket_id |-> r.ticket_id, title |-> r.title, event_name |-> r.event_name,
   date |-> r.date, time |-> r.time, venue |-> r.venue,
   location |-> r.location, price |-> r.price, quantity |-> r.quantity,
   seat_info |-> r.seat_info, description |-> r.description,
   days_remaining |-> r.days_remaining, is_instant_buy |-> r.is_instant_buy,
   url |-> r.url, first_seen |-> r.first_seen, last_seen |-> r.last_seen,
   status |-> r.status, posted |-> r.posted]

Records(T) == {Record(r) : r \in T}

\* C18: markPosted(ids) sets posted = true on exactly the stored records whose
\* id is in ids and changes nothing else of them, leaves every other record
\* and every price-history row as it was, creates no record for an id that is
\* not stored, and is idempotent: applied once more, at any later time, it
\* leaves the same records.
C18_MarkPostedExactAndIdempotent ==
  [][\A ids \in (SUBSET Ids) \ {{}} :
       (call'.op = "mark" /\ MarkPosted(ids))
       => /\ Records(tickets') =
               {IF r.ticket_id \in ids THEN [Record(r) EXCEPT !.posted = TRUE]
                                       ELSE Record(r) : r \in tickets}
          /\ \A r \in tickets : r.ticket_id \notin ids => r \in tickets'
          /\ Cardinality(tickets') = Cardinality(tickets)
          /\ price_history' = price_history
          /\ \A t \in now..MaxTime :
               Records(mark_tickets_as_posted(tickets', ids, t))
                 = Records(tickets')]_vars

\* A markPosted has run that named a stored unposted record, left another
\* record unposted, and named an id that is not stored or was posted already.
C18_Witness ==
  /\ call.op = "mark"
  /\ now > 0
  /\ \E r \in tickets : r.posted /\ r.updated_at = now /\ r.last_seen < now
  /\ \E r \in tickets : r.status = "active" /\ ~r.posted

C20_InvalidFilterIsAnError ==
  \A f \in Filters \ {NoFilter, "active", "sold"} :
    get_unposted_tickets(tickets, f) # get_unposted_tickets({}, NoFilter)

\* ------------------------------------------------------- TicketJamScraper

Range(q) == {q[n] : n \in 1..Len(q)}

\* The listings of the monitored page: each ticket_id at each price, in one
\* rendering of its text.
Listings == {TicketInfo(id, p, "a") : id \in Ids, p \in Prices}

\* The containers of one fetched page that pass _is_valid_ticket, in document
\* order.
Pages == UNION {[1..n -> Listings] : n \in 0..MaxPage}

\* The list with its duplicates left in.
unique_tickets_KeepsAll(ts) == ts

\* scrape_tickets' duplicate removal: the first candidate of each ticket_id.
unique_tickets(ts) ==
  LET kept[n \in 0..Len(ts)] ==
        IF n = 0 THEN <<>>
        ELSE IF \A m \in 1..(n - 1) : ts[m].ticket_id # ts[n].ticket_id
             THEN Append(kept[n - 1], ts[n])
             ELSE kept[n - 1]
  IN kept[Len(ts)]

\* The orders ORDER BY created_at DESC can return the rows R in.
Ordered(R) ==
  {q \in [1..Cardinality(R) -> R] :
     /\ \A m, n \in 1..Cardinality(R) : m # n => q[m] # q[n]
     /\ \A m, n \in 1..Cardinality(R) :
          m < n => q[m].created_at >= q[n].created_at}

\* What a pass keeps of each ticket dictionary: the id it marks and the
\* price it renders.
Listed(q) == [n \in 1..Len(q) |-> [ticket_id |-> q[n].ticket_id,
                                   price |-> q[n].price]]

\* ------------------------------------------------------ concurrent writers

\* The database file of an earlier run: the sold record and a posted record
\* of a listing that is still on the page.
StoredRow ==
  [NewRow(TicketInfo("A", "1,000円", "a"), 0) EXCEPT !.posted = TRUE]

StoredHistory ==
  Append(SoldHistory, HistoryRow(SoldHistory, TicketInfo("A", "1,000円", "a"), 0))

\* A table without its PRIMARY KEY.
InsertRaises_NoPrimaryKey(T, ticket) == FALSE

\* INSERT INTO tickets raises sqlite3.IntegrityError when a row of the
\* ticket_id is stored: ticket_id TEXT PRIMARY KEY.
InsertRaises(T, ticket) == Existing(T, ticket.ticket_id) # {}

\* The statements insert_or_update_ticket runs after its SELECT returned
\* `existing`, on the tables as they are by then: the branch is chosen from
\* what the SELECT saw, the UPDATE applies to the row stored now, and an
\* INSERT that raises leaves the `with` block, which rolls back.
Write(T, H, existing, ticket, current_time) ==
  IF existing # {}
  THEN LET existing_price == (CHOOSE r \in existing : TRUE).price
           price_changed == existing_price # ticket.price
       IN IF price_changed
          THEN [tickets |->
                  {IF r.ticket_id = ticket.ticket_id
                   THEN UpdatePriceChanged(r, ticket, current_time)
                   ELSE r : r \in T},
                price_history |->
                  Append(H, HistoryRow(H, ticket, current_time)),
                raised |-> FALSE]
          ELSE [tickets |->
                  {IF r.ticket_id = ticket.ticket_id
                   THEN UpdateSamePrice(r, ticket, current_time)
                   ELSE r : r \in T},
                price_history |-> H, raised |-> FALSE]
  ELSE IF InsertRaises(T, ticket)
       THEN [tickets |-> T, price_history |-> H, raised |-> TRUE]
       ELSE [tickets |-> T \cup {NewRow(ticket, current_time)},
             price_history |-> Append(H, HistoryRow(H, ticket, current_time)),
             raised |-> FALSE]

\* SELECT ticket_id, price, status FROM tickets WHERE ticket_id = ?
Selected(T, id) ==
  {[ticket_id |-> r.ticket_id, price |-> r.price, status |-> r.status] :
     r \in Existing(T, id)}

\* Writer w enters insert_or_update_ticket(ticket): the SELECT and fetchone,
\* after which the connection holds no lock.
Select(w, ticket) ==
  /\ txn[w].pc = "idle"
  /\ txn' = [txn EXCEPT ![w] =
               [pc |-> "selected", ticket |-> ticket,
                existing |-> Selected(tickets, ticket.ticket_id),
                before |-> <<tickets, price_history>>, raised |-> FALSE]]
  /\ UNCHANGED <<tickets, price_history, now, call, cyc, pass, last_sent,
                 undelivered, db_file, columns, mon>>

\* Writer w runs its INSERT/UPDATE statements and commits.
Commit(w) ==
  /\ txn[w].pc = "selected"
  /\ LET res == Write(tickets, price_history, txn[w].existing,
                      txn[w].ticket, now)
     IN /\ Len(res.price_history) <= Len(StoredHistory) + MaxHistory
        /\ tickets' = res.tickets
        /\ price_history' = res.price_history
        /\ txn' = [txn EXCEPT ![w].pc = "done", ![w].raised = res.raised]
  /\ UNCHANGED <<now, call, cyc, pass, last_sent, undelivered, db_file,
                 columns, mon>>

\* Both calls have returned.
Return ==
  /\ \A w \in Writers : txn[w].pc = "done"
  /\ txn' = [w \in Writers |-> IdleTxn]
  /\ UNCHANGED <<tickets, price_history, now, call, cyc, pass, last_sent,
                 undelivered, db_file, columns, mon>>

InitW ==
  /\ tickets = {SoldRow, StoredRow}
  /\ db_file = TRUE
  /\ columns = Fresh
  /\ mon = IdleMonitor
  /\ price_history = StoredHistory
  /\ now = 0
  /\ call = NoCall
  /\ InitProc

NextW ==
  \/ \E w \in Writers : \E ticket \in Listings : Select(w, ticket)
  \/ \E w \in Writers : Commit(w)
  \/ Return

\* Two processes scraping the monitored page and calling the store on one
\* database file.
SpecWriters == InitW /\ [][NextW]_vars

\* ------------------------------------------------------------ bot.py

\* The guard without the early return.
ReturnsEarly_Never(ts) == FALSE

\* `if not tickets: return` of scrape_tickets and manual_scrape.
ReturnsEarly(ts) == ts = <<>>

\* The id list built before the store call, without the last candidate.
PruneIds_DropsLast(current_ticket_ids) ==
  {current_ticket_ids[n] : n \in 1..(Len(current_ticket_ids) - 1)}

\* The list delete_removed_tickets is called with.
PruneIds(current_ticket_ids) == Range(current_ticket_ids)

\* The loop without its append to ticket_ids_to_mark.
AfterSend_NeverMarks(marks, id, ok) == marks

\* The send loop marking a ticket whether or not its send raised.
AfterSend_MarksFailed(marks, id, ok) == Append(marks, id)

\* ticket_ids_to_mark after one iteration of the send loop: the append is
\* skipped when format_ticket_for_discord or channel.send raises.
AfterSend(marks, id, ok) == IF ok THEN Append(marks, id) ELSE marks

\* A send loop that leaves the list at the first send that raises.
AfterIteration_BreaksOnFailure(i, n, ok) == IF ok THEN i + 1 ELSE n + 1

\* The index of the send loop after the iteration at index i of a list of n
\* tickets: `except Exception: ... continue` goes on with the next ticket.
AfterIteration(i, n, ok) == i + 1

\* The ticket_ids of the rows a store call appended to price_history.
Appended(H1, H2) == {H2[k].ticket_id : k \in (Len(H1) + 1)..Len(H2)}

\* The ids of last_sent a store call leaves as they were delivered.
StillSent(sent, ticket, action) ==
  IF action = "Updated last_seen" THEN sent ELSE sent \ {ticket.ticket_id}

\* scrape_tickets runs from the timer's tick to `await post_tickets()` without
\* awaiting: the event loop runs nothing else meanwhile.
Busy == cyc.pc \in {"fetching", "checking", "upserting", "pruning",
                    "pruned", "failed"}

\* The timer fires: tasks.loop starts scrape_tickets once its last run has
\* returned.
StartCycle ==
  /\ cyc.pc = "idle"
  /\ cyc' = [IdleCycle EXCEPT !.pc = "fetching"]
  /\ UNCHANGED <<tickets, price_history, now, call, pass, last_sent,
                 undelivered, txn, db_file, columns, mon>>

\* What scraper.scrape_tickets returns on a page it could fetch: the page's
\* accepted candidates without duplicate ids.
Fetched == {unique_tickets(page) : page \in Pages}

\* scraper.scrape_tickets(SCRAPE_URL): [] on a RequestException, else the
\* candidates of the page.
Fetch ==
  /\ cyc.pc = "fetching"
  /\ \/ cyc' = [cyc EXCEPT !.pc = "checking", !.fetch = "failed",
                           !.tickets = <<>>]
     \/ \E ts \in Fetched :
          cyc' = [cyc EXCEPT !.pc = "checking", !.fetch = "ok",
                             !.tickets = ts]
  /\ UNCHANGED <<tickets, price_history, now, call, pass, last_sent,
                 undelivered, txn, db_file, columns, mon>>

\* `if not tickets: return`, which leaves scrape_tickets before post_tickets.
CheckEmpty ==
  /\ cyc.pc = "checking"
  /\ cyc' = IF ReturnsEarly(cyc.tickets) THEN IdleCycle
            ELSE [cyc EXCEPT !.pc = IF cyc.tickets = <<>> THEN "pruning"
                                                         ELSE "upserting"]
  /\ UNCHANGED <<tickets, price_history, now, call, pass, last_sent,
                 undelivered, txn, db_file, columns, mon>>

\* One iteration of `for ticket in tickets`: the store call, then the append
\* to current_ticket_ids.
UpsertStep ==
  /\ cyc.pc = "upserting"
  /\ LET ticket == cyc.tickets[Len(cyc.current_ticket_ids) + 1]
         res == insert_or_update_ticket(tickets, price_history, ticket, now)
         ids == Append(cyc.current_ticket_ids, ticket.ticket_id)
     IN /\ Len(Recorded(res.price_history)) <= MaxHistory
        /\ tickets' = res.tickets
        /\ price_history' = res.price_history
        /\ cyc' = [cyc EXCEPT !.current_ticket_ids = ids,
                              !.pc = IF Len(ids) = Len(cyc.tickets)
                                     THEN "pruning" ELSE "upserting"]
        /\ last_sent' = StillSent(last_sent, ticket, res.action)
        /\ undelivered' =
             undelivered \cup Appended(price_history, res.price_history)
  /\ UNCHANGED <<now, call, pass, txn, db_file, columns, mon>>

\* insert_or_update_ticket raises a store error (sqlite3.Error): the
\* transaction is rolled back and the exception reaches `except Exception`.
UpsertFails ==
  /\ cyc.pc = "upserting"
  /\ cyc' = [cyc EXCEPT !.pc = "failed", !.error = TRUE]
  /\ UNCHANGED <<tickets, price_history, now, call, pass, last_sent,
                 undelivered, txn, db_file, columns, mon>>

\* delete_removed_tickets(current_ticket_ids).
PruneStep ==
  /\ cyc.pc = "pruning"
  /\ tickets' = delete_removed_tickets(
                  tickets, PruneIds(cyc.current_ticket_ids)).tickets
  /\ cyc' = [cyc EXCEPT !.pc = "pruned"]
  /\ UNCHANGED <<price_history, now, call, pass, last_sent, undelivered, txn,
                 db_file, columns, mon>>

\* The store after the first n iterations of manual_scrape's loop over ts.
UpsertAll(T, H, sent, ts, current_time, n) ==
  LET after[m \in 0..n] ==
        IF m = 0 THEN [tickets |-> T, price_history |-> H, sent |-> sent]
        ELSE LET res == insert_or_update_ticket(
                          after[m - 1].tickets, after[m - 1].price_history,
                          ts[m], current_time)
             IN [tickets |-> res.tickets,
                 price_history |-> res.price_history,
                 sent |-> StillSent(after[m - 1].sent, ts[m], res.action)]
  IN after[n]

\* manual_scrape (/scrape_now) on a fetch that fails (ok = FALSE) or returns
\* the candidates `found`, whose store calls succeed for the first n
\* candidates: it awaits nothing, so it runs whole while the other
\* coroutines await.
ManualScrape(ok, found, n) ==
  LET ts == IF ok THEN found ELSE <<>>
      up == UpsertAll(tickets, price_history, last_sent, ts, now, n)
      ids == [m \in 1..n |-> ts[m].ticket_id]
  IN /\ ~Busy
     /\ n \in 0..Len(ts)
     /\ Len(Recorded(up.price_history)) <= MaxHistory
     /\ IF ReturnsEarly(ts)
        THEN UNCHANGED <<tickets, price_history, last_sent, undelivered>>
        ELSE /\ price_history' = up.price_history
             /\ undelivered' =
                  undelivered \cup Appended(price_history, up.price_history)
             /\ last_sent' = up.sent
             /\ tickets' = IF n = Len(ts)
                           THEN delete_removed_tickets(
                                  up.tickets, PruneIds(ids)).tickets
                           ELSE up.tickets
     /\ UNCHANGED <<now, call, cyc, pass, txn, db_file, columns, mon>>

\* scrape_tickets without its `except Exception`: post_tickets is awaited
\* on the normal path only.
MayStart_NotAfterError(p) ==
  IF p = "post_tickets"
  THEN cyc.pc = "pruned"
  ELSE ~Busy /\ pass[p].pc = "idle"

\* The pass p may start: post_tickets is awaited by scrape_tickets after its
\* try block, on the normal path and after `except Exception`;
\* post_unposted_tickets is run by /post_tickets while the coroutines await.
MayStart(p) ==
  IF p = "post_tickets"
  THEN cyc.pc \in {"pruned", "failed"}
  ELSE ~Busy /\ pass[p].pc = "idle"

\* The timer's cycle while its pass runs, and once the pass has returned.
CycleDuring(p) ==
  IF p = "post_tickets"
  THEN [cyc EXCEPT !.pc = "notifying", !.tickets = <<>>,
                   !.current_ticket_ids = <<>>]
  ELSE cyc

CycleAfter(p) == IF p = "post_tickets" THEN IdleCycle ELSE cyc

\* The head of a pass: get_unposted_tickets('active'), the early return when
\* nothing is unposted, the channel lookup.
PassStart(p) ==
  /\ MayStart(p)
  /\ LET rows == get_unposted_tickets(tickets, "active") IN
     \/ /\ rows = {}
        /\ cyc' = CycleAfter(p)
        /\ UNCHANGED pass
     \/ /\ rows # {}          \* bot.get_channel returns None
        /\ cyc' = CycleAfter(p)
        /\ UNCHANGED pass
     \/ /\ rows # {}
        /\ \E q \in Ordered(rows) :
             pass' = [pass EXCEPT ![p] =
                        [IdlePass EXCEPT !.pc = "sending",
                                         !.unposted_tickets = Listed(q)]]
        /\ cyc' = CycleDuring(p)
  /\ UNCHANGED <<tickets, price_history, now, call, last_sent, undelivered,
                 txn, db_file, columns, mon>>

\* One iteration of `for ticket in unposted_tickets`: the embed is built and
\* sent, which succeeds or raises; the coroutine awaits in channel.send and
\* in asyncio.sleep(1).
Send(p) ==
  /\ ~Busy
  /\ pass[p].pc = "sending"
  /\ pass[p].i <= Len(pass[p].unposted_tickets)
  /\ LET id == pass[p].unposted_tickets[pass[p].i].ticket_id IN
     \E ok \in BOOLEAN :
       /\ pass' = [pass EXCEPT
                     ![p].ticket_ids_to_mark = AfterSend(@, id, ok),
                     ![p].failed = IF ok THEN @ ELSE @ \cup {id},
                     ![p].i = AfterIteration(
                                @, Len(pass[p].unposted_tickets), ok)]
       /\ undelivered' = IF ok THEN undelivered \ {id} ELSE undelivered
  /\ UNCHANGED <<tickets, price_history, now, call, cyc, last_sent, txn,
                 db_file, columns, mon>>

\* After the loop: `if ticket_ids_to_mark: mark_tickets_as_posted(...)`, and
\* the pass returns.
Mark(p) ==
  /\ ~Busy
  /\ pass[p].pc = "sending"
  /\ pass[p].i > Len(pass[p].unposted_tickets)
  /\ tickets' = IF pass[p].ticket_ids_to_mark # <<>>
                THEN mark_tickets_as_posted(
                       tickets, Range(pass[p].ticket_ids_to_mark), now)
                ELSE tickets
  /\ last_sent' = Range(pass[p].ticket_ids_to_mark)
  /\ pass' = [pass EXCEPT ![p] = [IdlePass EXCEPT !.failed = pass[p].failed]]
  /\ cyc' = CycleAfter(p)
  /\ UNCHANGED <<price_history, now, call, undelivered, txn, db_file, columns,
                 mon>>

\* The bot starts on a fresh database file. Its steps fall at one reading of
\* the clock: what the store writes from the clock decides nothing in bot.py
\* but the order of get_unposted_tickets, and rows created at one reading come
\* in either order.
Init ==
  /\ tickets = {}
  /\ db_file = TRUE
  /\ columns = Fresh
  /\ mon = IdleMonitor
  /\ price_history = <<>>
  /\ now = 0
  /\ call = NoCall
  /\ InitProc

\* The steps of the timer's scrape_tickets up to `await post_tickets()`.
CycleStep ==
  \/ StartCycle
  \/ Fetch
  \/ CheckEmpty
  \/ UpsertStep
  \/ UpsertFails
  \/ PruneStep

\* The operator runs /scrape_now.
ScrapeNow ==
  \/ \E ts \in Fetched : \E n \in 0..Len(ts) : ManualScrape(TRUE, ts, n)
  \/ ManualScrape(FALSE, <<>>, 0)

\* The steps of the notification passes P.
PassStep(P) ==
  \/ \E p \in P : PassStart(p)
  \/ \E p \in P : Send(p)
  \/ \E p \in P : Mark(p)

\* The steps of the bot process whose operator can start the passes P.
Step(P) ==
  \/ CycleStep
  \/ ScrapeNow
  \/ PassStep(P)

Next == Step(Passes)

\* The bot process: the timer, /scrape_now and /post_tickets.
Spec == Init /\ [][Next]_vars

NextTimer == Step({"post_tickets"})

\* The bot process whose operator does not run /post_tickets: every
\* notification pass is the timer's post_tickets.
SpecTimer == Init /\ [][NextTimer]_vars

NextPasses ==
  \/ CycleStep
  \/ PassStep(Passes)

\* The bot process whose operator runs /post_tickets and not /scrape_now:
\* every scrape is the timer's.
SpecPasses == Init /\ [][NextPasses]_vars

\* ------------------------------------------------- the orchestrator's cycle

\* The timer's cycle has fetched the page and extracted no candidate from it.
EmptySnapshot ==
  cyc.pc = "checking" /\ cyc.fetch = "ok" /\ cyc.tickets = <<>>

ActiveIds(T) == {r.ticket_id : r \in {x \in T : x.status = "active"}}

C7_FetchFailureMutatesNothing ==
  [][/\ cyc'.fetch = "failed" => UNCHANGED <<tickets, price_history>>
     /\ cyc.fetch = "failed" =>
          /\ cyc' = IdleCycle
          /\ UNCHANGED <<tickets, price_history, pass>>
     /\ ManualScrape(FALSE, <<>>, 0) => UNCHANGED <<tickets, price_history>>
    ]_vars

\* A fetch has failed while the store holds active records.
C7_Witness ==
  cyc.fetch = "failed" /\ ActiveIds(tickets) # {}

\* C8: within one cycle, prune runs only after every candidate of that cycle
\* has been upserted (its record carries the candidate's price and this
\* cycle's last_seen), and the id set passed to prune is exactly the set of
\* ticket_ids of that cycle's extraction, so the active records left by
\* prune are exactly the cycle's candidates.
C8_PruneAfterAllUpserts ==
  cyc.pc \in {"pruning", "pruned"} =>
    LET extracted == {cyc.tickets[n].ticket_id : n \in 1..Len(cyc.tickets)}
    IN /\ ~cyc.error
       /\ Len(cyc.current_ticket_ids) = Len(cyc.tickets)
       /\ \A n \in 1..Len(cyc.tickets) :
            \E r \in tickets : /\ r.ticket_id = cyc.tickets[n].ticket_id
                               /\ r.price = cyc.tickets[n].price
                               /\ r.last_seen = now
       /\ PruneIds(cyc.current_ticket_ids) = extracted
       /\ cyc.pc = "pruned" => ActiveIds(tickets) = extracted

\* Prune has run in a cycle and has deleted a record the store had recorded
\* before.
C8_Witness ==
  /\ cyc.pc = "pruned"
  /\ \E n \in 1..Len(price_history) :
       /\ price_history[n].ticket_id \notin Range(cyc.current_ticket_ids)
       /\ price_history[n].ticket_id \notin ActiveIds(tickets)

\* C9 as stated: once an upsert of a cycle has failed with a store error, the
\* cycle's remaining steps are aborted: no further candidate is upserted,
\* prune does not run, and no notification pass runs in that cycle.
C9_StoreErrorAbortsCycle ==
  cyc.error => /\ cyc.pc = "failed"
               /\ pass["post_tickets"].pc = "idle"

\* ------------------------------------------------------ the notification pass

\* C10: in a notification pass, a record whose send fails stays
\* posted = false after the pass; every record whose send succeeded is
\* posted = true after the pass and, as long as no scrape re-arms it (a price
\* change, a new insert), is not in the list of the next pass, whatever the
\* outcome of the later sends of its pass.
C10_FailedSendStaysUnposted ==
  \A p \in Passes :
    /\ \A r \in tickets : r.ticket_id \in pass[p].failed => ~r.posted
    /\ \A r \in tickets : r.ticket_id \in last_sent => r.posted
    /\ pass[p].pc = "sending" =>
         \A n \in 1..Len(pass[p].unposted_tickets) :
           pass[p].unposted_tickets[n].ticket_id \notin last_sent

\* A pass has returned in which one send succeeded and another failed; both
\* records are in the store.
C10_Witness ==
  /\ pass["post_tickets"].pc = "idle"
  /\ cyc.pc = "idle"
  /\ \E r \in tickets : r.ticket_id \in last_sent
  /\ \E r \in tickets : r.ticket_id \in pass["post_tickets"].failed

\* C11: a send that fails does not abort the notification pass: whatever the
\* outcome of a send, the pass goes on with the next record of its list, and
\* it returns only when every record of the list has been handed to the
\* channel (each one is then among the sent or the failed ones).
C11_FailedSendDoesNotAbort ==
  [][\A p \in Passes :
       (pass[p].pc = "sending" /\ pass'[p] # pass[p]) =>
         IF pass[p].i <= Len(pass[p].unposted_tickets)
         THEN /\ pass'[p].pc = "sending"
              /\ pass'[p].unposted_tickets = pass[p].unposted_tickets
              /\ pass'[p].i = pass[p].i + 1
         ELSE /\ pass'[p].pc = "idle"
              /\ Range(pass[p].ticket_ids_to_mark) \cup pass[p].failed
                   = {t.ticket_id : t \in Range(pass[p].unposted_tickets)}
    ]_vars

\* In each of the two passes, the first send of a list of two has failed and
\* the second record has been handed to the channel and sent.
C11_Witness ==
  \A p \in Passes :
    /\ pass[p].pc = "sending"
    /\ Len(pass[p].unposted_tickets) = 2
    /\ pass[p].i = 3
    /\ pass[p].failed = {pass[p].unposted_tickets[1].ticket_id}
    /\ pass[p].ticket_ids_to_mark = <<pass[p].unposted_tickets[2].ticket_id>>

\* --------------------------------------------------------------- concurrency

\* C12 as stated: in every reachable state, a record whose most recent
\* price-history entry was appended after the last successful delivery of its
\* id to the channel has posted = false.
C12_PriceChangeNotLost ==
  \A r \in tickets : r.ticket_id \in undelivered => ~r.posted

\* C13 as stated: no two cycles are in progress at once, a cycle being in
\* progress from the start of its fetch until its notification pass has
\* returned: /scrape_now runs its cycle only while the timer's cycle is not in
\* progress.
C13_CyclesNotReentrant ==
  [][(\/ \E ts \in Fetched : \E n \in 0..Len(ts) : ManualScrape(TRUE, ts, n)
      \/ ManualScrape(FALSE, <<>>, 0))
     => cyc.pc = "idle"]_vars

\* The tables after the call insert_or_update_ticket(t) on the tables S.
Alone(S, t, current_time) ==
  LET one == insert_or_update_ticket(S[1], S[2], t, current_time)
  IN <<one.tickets, one.price_history>>

\* The tables after the serial calls insert_or_update_ticket(t1) and then
\* insert_or_update_ticket(t2) on the tables S.
Serial(S, t1, t2, current_time) ==
  LET one == insert_or_update_ticket(S[1], S[2], t1, current_time)
      two == insert_or_update_ticket(one.tickets, one.price_history, t2,
                                     current_time)
  IN <<two.tickets, two.price_history>>

\* C14 as stated: when two writers upsert the same ticket_id concurrently and
\* no other call comes between, the record and the price-history rows left
\* by the second commit are those of one of the two serial executions of the
\* two upserts.
C14_ConcurrentUpsertsSerialize ==
  [][\A w \in Writers : \A v \in Writers \ {w} :
       ( /\ txn[w].pc = "selected" /\ txn'[w].pc = "done"
         /\ txn[v].pc = "done"
         /\ txn[v].ticket.ticket_id = txn[w].ticket.ticket_id
         /\ txn[w].before = txn[v].before
         /\ <<tickets, price_history>> = Alone(txn[v].before, txn[v].ticket, now) )
       => \/ <<tickets', price_history'>>
               = Serial(txn[v].before, txn[v].ticket, txn[w].ticket, now)
          \/ <<tickets', price_history'>>
               = Serial(txn[v].before, txn[w].ticket, txn[v].ticket, now)
    ]_vars

\* ------------------------------------------------ command surface (main)

\* argv[1] of an invocation without a verb (len(sys.argv) < 2), and a verb
\* that is none of main's modes.
NoVerb == ""
UnknownVerb == "help"

\* sys.argv[1:]: the verb, the status argument of dump and unposted
\* (NoFilter when there is none) and the ticket ids of posted.
Argv(mode, status_filter, ticket_ids) ==
  [mode |-> mode, status_filter |-> status_filter, ticket_ids |-> ticket_ids]

\* The command lines an operator types.
Argvs ==
  {Argv(m, NoFilter, {}) :
     m \in {NoVerb, UnknownVerb, "scrape", "stats", "clear", "delete"}}
  \cup {Argv(m, f, {}) : m \in {"dump", "unposted"}, f \in Filters}
  \cup {Argv("posted", NoFilter, ids) : ids \in SUBSET HistoryIds}

\* The process before it constructs a TicketDatabase: the file as it was
\* found, nothing opened, nothing printed; main returns and the interpreter
\* exits with status 0.
Untouched(T, H, exists) ==
  [tickets |-> T, price_history |-> H, db_file |-> exists, opened |-> FALSE,
   out |-> "", err |-> "", exit_status |-> 0]

\* TicketDatabase(): init_database connects, which creates the file when it
\* is missing, and creates the tables and indexes that do not exist.
TicketDatabase(T, H, exists) ==
  [Untouched(T, H, exists) EXCEPT !.db_file = TRUE, !.opened = TRUE]

\* mode == "unposted".
Unposted(T, H, exists, status_filter) ==
  [TicketDatabase(T, H, exists) EXCEPT
     !.err = IF status_filter # NoFilter
                /\ status_filter \notin {"active", "sold"}
             THEN "Invalid status filter" ELSE "",
     !.out = IF get_unposted_tickets(T, status_filter) = {}
             THEN "No unposted tickets found" ELSE "Found"]

\* mode == "dump".
Dump(T, H, exists, status_filter) ==
  IF status_filter # NoFilter /\ status_filter \notin {"active", "sold"}
  THEN [Untouched(T, H, exists) EXCEPT !.err = "Invalid status filter"]
  ELSE [TicketDatabase(T, H, exists) EXCEPT !.out = "tickets"]

\* mode == "posted".
Posted(T, H, exists, ticket_ids, current_time) ==
  IF ticket_ids = {}
  THEN [Untouched(T, H, exists) EXCEPT !.out = "Usage"]
  ELSE [TicketDatabase(T, H, exists) EXCEPT
          !.tickets = mark_tickets_as_posted(T, ticket_ids, current_time),
          !.out = "Successfully marked"]

\* scrape_and_update_database on the candidates ts that scrape_tickets
\* returned: nothing for an empty list, else every upsert and then the
\* prune.
scrape_and_update_database(T, H, ts, current_time) ==
  LET up == UpsertAll(T, H, {}, ts, current_time, Len(ts))
      current_ticket_ids == {ts[n].ticket_id : n \in 1..Len(ts)}
  IN IF ts = <<>>
     THEN [tickets |-> T, price_history |-> H]
     ELSE [tickets |->
             delete_removed_tickets(up.tickets, current_ticket_ids).tickets,
           price_history |-> up.price_history]

\* mode == "scrape": both branches on is_database_empty() make the same
\* store calls.
Scrape(T, H, exists, ts, current_time) ==
  LET res == scrape_and_update_database(T, H, ts, current_time) IN
  [TicketDatabase(T, H, exists) EXCEPT
     !.tickets = res.tickets, !.price_history = res.price_history,
     !.out = "completed"]

\* main() on argv, when a scrape returns the candidates ts: the database
\* file after it, whether a TicketDatabase was constructed, what was printed
\* on stdout and stderr, and the exit status of the interpreter.
main(T, H, exists, argv, ts, current_time) ==
  CASE argv.mode = NoVerb ->
         [Untouched(T, H, exists) EXCEPT !.out = "Usage"]
    [] argv.mode = "scrape" -> Scrape(T, H, exists, ts, current_time)
    [] argv.mode = "stats" ->
         [TicketDatabase(T, H, exists) EXCEPT !.out = "Database Statistics"]
    [] argv.mode = "dump" -> Dump(T, H, exists, argv.status_filter)
    [] argv.mode = "clear" ->
         [TicketDatabase(T, H, exists) EXCEPT
            !.tickets = {}, !.price_history = <<>>,
            !.out = "Database cleared successfully"]
    [] argv.mode = "delete" ->
         [TicketDatabase(T, H, exists) EXCEPT
            !.tickets = {}, !.price_history = <<>>, !.db_file = FALSE,
            !.out = "Database deleted successfully"]
    [] argv.mode = "unposted" -> Unposted(T, H, exists, argv.status_filter)
    [] argv.mode = "posted" ->
         Posted(T, H, exists, argv.ticket_ids, current_time)
    [] OTHER -> [Untouched(T, H, exists) EXCEPT !.out = "Unknown mode"]

\* The operator runs `python ticketjam.py argv`; a scrape finds the
\* candidates ts.
Main(argv, ts) ==
  LET res == main(tickets, price_history, db_file, argv, ts, now) IN
  /\ Len(res.price_history) <= MaxHistory
  /\ tickets' = res.tickets
  /\ price_history' = res.price_history
  /\ db_file' = res.db_file
  /\ columns' = IF res.db_file /\ ~db_file THEN Fresh ELSE columns
  /\ call' = [op |-> "main", argv |-> argv, opened |-> res.opened,
              out |-> res.out, err |-> res.err,
              exit_status |-> res.exit_status]
  /\ UNCHANGED <<now, proc, mon>>

\* No database file yet.
InitMain ==
  /\ tickets = {}
  /\ price_history = <<>>
  /\ db_file = FALSE
  /\ columns = Fresh
  /\ mon = IdleMonitor
  /\ now = 0
  /\ call = NoCall
  /\ InitProc

NextMain ==
  \E argv \in Argvs : \E ts \in Fetched :
    /\ argv.mode # "scrape" => ts = <<>>
    /\ Main(argv, ts)

\* The operator at the command line of ticketjam.py.
SpecMain == InitMain /\ [][NextMain]_vars

\* The command lines the specification calls invalid operator input.
BadFilter(argv) ==
  /\ argv.mode \in {"dump", "unposted"}
  /\ argv.status_filter \notin {NoFilter, "active", "sold"}

MissingIds(argv) == argv.mode = "posted" /\ argv.ticket_ids = {}

\* C21: an invocation with a bad status filter for unposted or dump, or with
\* posted and no ticket ids, constructs no TicketDatabase: the database file
\* is not opened, not created, and its tables are left as they were.
C21_InvalidInputNoStoreAccess ==
  [][\A argv \in Argvs :
       (Main(argv, <<>>) /\ (BadFilter(argv) \/ MissingIds(argv)))
         => /\ ~call'.opened
            /\ UNCHANGED <<tickets, price_history, db_file>>]_vars

\* C22: an invocation with an unknown verb, with no verb, or with posted and
\* no ids ends with a non-zero exit status and a usage message, and leaves
\* the store unchanged.
C22_UsageErrorExitsNonZero ==
  [][\A argv \in Argvs :
       (Main(argv, <<>>)
        /\ (argv.mode \in {NoVerb, UnknownVerb} \/ MissingIds(argv)))
         => /\ call'.exit_status # 0
            /\ call'.out = "Usage"
            /\ UNCHANGED <<tickets, price_history, db_file>>]_vars

\* ------------------------------------------------ price change formatting

\* A str is the sequence of its characters; a character is written by its
\* code point where the string syntax does not take it: U+524D is 前,
\* U+6642 is 時, U+1F4C8 is 📈, U+1F4C9 is 📉.
Digits == <<"0", "1", "2", "3", "4", "5", "6", "7", "8", "9">>

IsDigit(c) == c \in Range(Digits)

\* The value of the digit c.
DigitValue(c) == (CHOOSE n \in 1..10 : Digits[n] = c) - 1

\* s.replace(old, '') for a one-character old.
replace(s, old) == SelectSeq(s, LAMBDA c : c # old)

\* current_price.replace(',', '').replace('円', '')
Stripped(price) == replace(replace(price, ","), "円")

\* int(s) raises ValueError: s is empty or holds a character that is not a
\* digit (the strings here carry no sign, blank or underscore).
ValueError(s) == s = <<>> \/ \E n \in 1..Len(s) : ~IsDigit(s[n])

\* int(s) for a string of digits.
int(s) ==
  LET val[n \in 0..Len(s)] ==
        IF n = 0 THEN 0 ELSE 10 * val[n - 1] + DigitValue(s[n])
  IN val[Len(s)]

\* str(n)
RECURSIVE str(_)
str(n) ==
  IF n < 10 THEN <<Digits[n + 1]>>
  ELSE Append(str(n \div 10), Digits[(n % 10) + 1])

\* f"{n:,}": the digits of n with a comma before every group of three that
\* is not the first.
FormatThousands(n) ==
  LET d == str(n)
      out[k \in 0..Len(d)] ==
        IF k = 0 THEN <<>>
        ELSE IF k > 1 /\ (Len(d) - k + 1) % 3 = 0
             THEN out[k - 1] \o <<",", d[k]>>
             ELSE Append(out[k - 1], d[k])
  IN out[Len(d)]

\* The function without its `except (ValueError, AttributeError)`: int()'s
\* ValueError reaches the caller.
format_price_change_info_NoFallback(current_price, history) ==
  IF Len(history) <= 1
  THEN [raised |-> FALSE, value |-> current_price]
  ELSE [raised |-> TRUE, value |-> <<>>]

\* format_price_change_info: the string returned, and whether the call
\* raised instead.
format_price_change_info(current_price, history) ==
  IF Len(history) <= 1
  THEN [raised |-> FALSE, value |-> current_price]
  ELSE
    LET previous_price == history[Len(history) - 1].price IN
    IF previous_price = current_price
    THEN [raised |-> FALSE, value |-> current_price]
    ELSE IF ValueError(Stripped(current_price))
            \/ ValueError(Stripped(previous_price))
    THEN [raised |-> FALSE,
          value |-> current_price \o <<"\n", "U+524D", "回", ":", " ">>
                      \o previous_price]
    ELSE
      LET current_val == int(Stripped(current_price))
          previous_val == int(Stripped(previous_price))
      IN IF current_val > previous_val
         THEN [raised |-> FALSE,
               value |-> current_price \o <<" ", "U+1F4C8", " ", "(", "+">>
                           \o FormatThousands(current_val - previous_val)
                           \o <<"円", ")", "\n", "~", "~">>
                           \o previous_price \o <<"~", "~">>]
         ELSE [raised |-> FALSE,
               value |-> current_price \o <<" ", "U+1F4C9", " ", "(", "-">>
                           \o FormatThousands(previous_val - current_val)
                           \o <<"円", ")", "\n", "~", "~">>
                           \o previous_price \o <<"~", "~">>]

\* get_ticket_with_price_info's color_hint for a ticket at price whose
\* get_price_history list is history.
color_hint(price, history) ==
  IF Len(history) > 1
  THEN LET previous_price == history[Len(history) - 1].price IN
       IF ValueError(Stripped(price)) \/ ValueError(Stripped(previous_price))
       THEN "default"
       ELSE IF int(Stripped(price)) > int(Stripped(previous_price))
            THEN "increase"
            ELSE IF int(Stripped(price)) < int(Stripped(previous_price))
                 THEN "decrease"
                 ELSE "default"
  ELSE "default"

\* get_ticket_with_price_info on a ticket dictionary of this price whose
\* get_price_history list is history: price_info and color_hint.
get_ticket_with_price_info(price, history) ==
  LET price_info == format_price_change_info(price, history) IN
  [raised |-> price_info.raised, price_info |-> price_info.value,
   color_hint |-> IF price_info.raised THEN ""
                  ELSE color_hint(price, history)]

\* A history holds at most MaxEntries entries.
MaxEntries == 3

\* Price strings: with and without the thousands separator, and one that is
\* no amount.
PriceStrings ==
  {<<"1", ",", "0", "0", "0", "円">>, <<"1", "0", "0", "0", "円">>,
   <<"1", ",", "5", "0", "0", "円">>, <<"2", ",", "5", "0", "0", "円">>,
   <<"5", "0", "0", "円">>, <<"U+6642", "価">>}

\* The lists get_price_history can return, oldest entry first.
Histories ==
  UNION {{[k \in 1..n |-> [price |-> q[k], recorded_at |-> k]] :
            q \in [1..n -> PriceStrings]} : n \in 0..MaxEntries}

\* A call of get_ticket_with_price_info that has not returned.
InitFormat ==
  /\ InitStore
  /\ db_file = TRUE
  /\ columns = Fresh
  /\ mon = IdleMonitor
  /\ now = 0
  /\ InitProc
  /\ call \in {[op |-> "get_ticket_with_price_info", price |-> c,
                price_history |-> h, done |-> FALSE, raised |-> FALSE,
                price_info |-> <<>>, color_hint |-> ""] :
                 c \in PriceStrings, h \in Histories}

\* The call returns.
FormatReturns ==
  LET res == get_ticket_with_price_info(call.price, call.price_history) IN
  /\ ~call.done
  /\ call' = [call EXCEPT !.done = TRUE, !.raised = res.raised,
                          !.price_info = res.price_info,
                          !.color_hint = res.color_hint]
  /\ UNCHANGED <<tickets, price_history, now, proc, db_file, columns, mon>>

SpecFormat == InitFormat /\ [][FormatReturns]_vars

\* t holds part as a substring.
Holds(t, part) ==
  \E i \in 0..(Len(t) - Len(part)) :
    \A k \in 1..Len(part) : t[i + k] = part[k]

\* The arithmetic delta as format_price_change_info prints it.
Delta(sign, n) == <<"(", sign>> \o FormatThousands(n) \o <<"円", ")">>

\* The string carries no change mark and no delta.
NoDelta(t) ==
  \A n \in 1..Len(t) : t[n] \notin {"U+1F4C8", "U+1F4C9", "(", "+", "-"}

\* The prior price of a returned call: the second-to-last history entry.
Prior == call.price_history[Len(call.price_history) - 1].price

\* Both prices of a returned call parse as numbers.
BothParse ==
  /\ ~ValueError(Stripped(call.price))
  /\ ~ValueError(Stripped(Prior))

\* C23: with c the current price and p the second-to-last history entry,
\* both stripped of separators and currency unit, a returned call reports
\* increase with delta c - p when c > p, decrease with delta p - c when
\* c < p, unchanged with no delta when c = p, and unchanged with no delta
\* for a history of at most one entry.
C23_DirectionClassification ==
  call.done =>
    IF Len(call.price_history) <= 1
    THEN call.color_hint = "default" /\ NoDelta(call.price_info)
    ELSE BothParse =>
      LET c == int(Stripped(call.price))
          p == int(Stripped(Prior))
      IN /\ c > p => /\ call.color_hint = "increase"
                     /\ Holds(call.price_info, <<"U+1F4C8">>)
                     /\ Holds(call.price_info, Delta("+", c - p))
         /\ c < p => /\ call.color_hint = "decrease"
                     /\ Holds(call.price_info, <<"U+1F4C9">>)
                     /\ Holds(call.price_info, Delta("-", p - c))
         /\ c = p => /\ call.color_hint = "default"
                     /\ NoDelta(call.price_info)

\* C24: a returned call whose current or prior price does not parse as a
\* number has raised nothing, its string is the current price, followed by
\* the previous price when the two differ, with no change mark and no
\* delta, and its direction is the unchanged one.
C24_ParseFailureDegrades ==
  (call.done /\ Len(call.price_history) >= 2 /\ ~BothParse) =>
    /\ ~call.raised
    /\ call.color_hint = "default"
    /\ NoDelta(call.price_info)
    /\ Holds(call.price_info, call.price)
    /\ Holds(call.price_info, Prior)

C24_Witness ==
  /\ call.done
  /\ Len(call.price_history) >= 2
  /\ ~ValueError(Stripped(call.price))
  /\ ValueError(Stripped(Prior))
  /\ call.price_info =
       call.price \o <<"\n", "U+524D", "回", ":", " ">> \o Prior

\* C38: the change annotation of the display string agrees with the color
\* hint of the same call: an increase mark exactly when the hint is increase,
\* a decrease mark exactly when the hint is decrease, and no mark when the
\* hint is the default one.
C38_AnnotationAgreesWithHint ==
  (call.done /\ ~call.raised) =>
    /\ Holds(call.price_info, <<"U+1F4C8">>) <=> call.color_hint = "increase"
    /\ Holds(call.price_info, <<"U+1F4C9">>) <=> call.color_hint = "decrease"
    /\ call.color_hint = "default" => NoDelta(call.price_info)

\* --------------------------------------------------------- ticket identity

\* s.rstrip(c)
RECURSIVE rstrip(_, _)
rstrip(s, c) ==
  IF s # <<>> /\ s[Len(s)] = c THEN rstrip(SubSeq(s, 1, Len(s) - 1), c)
  ELSE s

\* s.split(sep)[-1] for a one-character sep: what follows the last sep, all
\* of s when it holds none.
LastPart(s, sep) ==
  LET seps == {n \in 1..Len(s) : s[n] = sep}
      last == IF seps = {} THEN 0
              ELSE CHOOSE n \in seps : \A m \in seps : m <= n
  IN SubSeq(s, last + 1, Len(s))

\* The id taken from the url as it stands, trailing slash included.
generate_ticket_id_NoRstrip(ticket_id, url) ==
  IF ticket_id = <<>> /\ url # <<>> THEN LastPart(url, "/") ELSE ticket_id

\* TicketInfo.generate_ticket_id: self.ticket_id after the call.
generate_ticket_id(ticket_id, url) ==
  IF ticket_id = <<>> /\ url # <<>>
  THEN LastPart(rstrip(url, "/"), "/")
  ELSE ticket_id

\* A url below holds at most MaxUrl characters.
MaxUrl == 5

\* https://site/ticket/abc-1
SiteUrl ==
  <<"h", "t", "t", "p", "s", ":", "/", "/", "s", "i", "t", "e", "/",
    "t", "i", "c", "k", "e", "t", "/", "a", "b", "c", "-", "1">>

\* The urls a TicketInfo is given: every string of slashes and two other
\* characters, and the listing above with and without a trailing slash.
Urls ==
  UNION {[1..n -> {"/", "a", "1"}] : n \in 0..MaxUrl}
  \cup {SiteUrl, Append(SiteUrl, "/")}

\* A fresh TicketInfo whose url has been set.
InitIdentity ==
  /\ InitStore
  /\ db_file = TRUE
  /\ columns = Fresh
  /\ mon = IdleMonitor
  /\ now = 0
  /\ InitProc
  /\ call \in {[op |-> "generate_ticket_id", url |-> url, ticket_id |-> <<>>,
                count |-> 0] : url \in Urls}

\* ticket.generate_ticket_id() is called, for the first time or again.
GenerateTicketId ==
  /\ call.count < 2
  /\ call' = [call EXCEPT
                !.ticket_id = generate_ticket_id(call.ticket_id, call.url),
                !.count = call.count + 1]
  /\ UNCHANGED <<tickets, price_history, now, proc, db_file, columns, mon>>

SpecIdentity == InitIdentity /\ [][GenerateTicketId]_vars

\* id is the final path segment of url: it holds no slash, and url without
\* its trailing slashes ends with it, after a slash or as the whole.
FinalSegment(id, url) ==
  /\ \A n \in 1..Len(id) : id[n] # "/"
  /\ \E k \in 0..Len(url) :
       /\ k > 0 => url[k] = "/"
       /\ Len(id) > 0 => k + Len(id) <= Len(url)
       /\ SubSeq(url, k + 1, k + Len(id)) = id
       /\ \A n \in (k + Len(id) + 1)..Len(url) : url[n] = "/"
       /\ Len(id) = 0 => k = 0 \/ \A n \in 1..k : url[n] = "/"

\* C25: the ticket_id generate_ticket_id leaves is the final path segment of
\* the url without its trailing slashes, the url with one more trailing
\* slash gives the same id, https://site/ticket/abc-1 with and without the
\* slash gives abc-1, and a second call leaves the id of the first.
C25_DeterministicIdentity ==
  [][/\ FinalSegment(call'.ticket_id, call.url)
     /\ call'.ticket_id = generate_ticket_id(<<>>, Append(call.url, "/"))
     /\ call.url \in {SiteUrl, Append(SiteUrl, "/")}
          => call'.ticket_id = <<"a", "b", "c", "-", "1">>
     /\ call.count = 1 => call'.ticket_id = call.ticket_id]_vars

C25_Witness ==
  /\ call.op = "generate_ticket_id"
  /\ call.count = 2
  /\ call.url # <<>>
  /\ call.url[Len(call.url)] = "/"
  /\ call.ticket_id # <<>>

\* --------------------------------------------------------------- Extractor

\* Characters the string syntax does not take are written by code point:
\* U+516C 公, U+6F14 演, U+6C17 気, U+706B 火, U+6771 東, U+5E74 年,
\* U+6708 月, U+5373 即, U+6C7A 決, U+5343 千, U+8449 葉, U+5E55 幕,
\* U+5F35 張.

\* A character class of a pattern, and whether c is in it.
Class(chars, negated) == [chars |-> chars, negated |-> negated]

In(c, cls) == (c \in cls.chars) # cls.negated

\* \d, \s (also written [\s\n]), [^\s], `.` and a literal character.
Digit == Class(Range(Digits), FALSE)
Space == Class({" ", "\n"}, FALSE)
NonSpace == Class({" ", "\n"}, TRUE)
Any == Class({"\n"}, TRUE)
Lit(c) == Class({c}, FALSE)

\* The upper limit of * and +: no text is longer than what
\* _contains_ticket_data admits.
Unbounded == 5000

\* An item of a pattern: lo to hi characters of a class, as many as can be.
Item(cls, lo, hi) == [cls |-> cls, lo |-> lo, hi |-> hi]

One(c) == Item(Lit(c), 1, 1)

\* How many characters of cls s holds in a row from position pos.
Run(s, cls, pos) ==
  CHOOSE n \in 0..(Len(s) + 1 - pos) :
    /\ \A m \in pos..(pos + n - 1) : In(s[m], cls)
    /\ pos + n <= Len(s) => ~In(s[pos + n], cls)

\* The ways the items k.. of pat match s from position pos: for each, the
\* position after every item.
RECURSIVE Ends(_, _, _, _)
Ends(pat, s, k, pos) ==
  IF k > Len(pat) THEN {<<>>}
  ELSE LET run == IF pos > Len(s) THEN 0 ELSE Run(s, pat[k].cls, pos)
           top == IF pat[k].hi < run THEN pat[k].hi ELSE run
       IN UNION {{<<pos + n>> \o rest :
                    rest \in Ends(pat, s, k + 1, pos + n)} :
                 n \in pat[k].lo..top}

\* The match the backtracking of re takes among B: every item as long as
\* the items before it allow.
Greedy(B) ==
  CHOOSE b \in B :
    \A c \in B \ {b} :
      \E k \in 1..Len(b) : /\ \A m \in 1..(k - 1) : b[m] = c[m]
                           /\ b[k] > c[k]

\* re.search(pat, s): no match, or the leftmost one, as the position where
\* it starts and the position after each item.
search(pat, s) ==
  LET starts == {i \in 1..Len(s) : Ends(pat, s, 1, i) # {}} IN
  IF starts = {} THEN [found |-> FALSE, start |-> 0, ends |-> <<>>]
  ELSE LET i == CHOOSE n \in starts : \A m \in starts : n <= m
       IN [found |-> TRUE, start |-> i,
           ends |-> Greedy(Ends(pat, s, 1, i))]

\* The text the items a..b of a match cover.
group(s, m, a, b) ==
  SubSeq(s, IF a = 1 THEN m.start ELSE m.ends[a - 1], m.ends[b] - 1)

\* An amount holds at most MaxGroups groups ",ddd".
MaxGroups == 1

\* \d{1,3}(?:,\d{3})* with g groups.
Amount(g) ==
  LET more[n \in 0..g] ==
        IF n = 0 THEN <<Item(Digit, 1, 3)>>
        ELSE more[n - 1] \o <<One(","), Item(Digit, 3, 3)>>
  IN more[g]

\* (amount)[\s\n]*円 when min = 0 (price_patterns[0], without its optional
\* /枚, and price_patterns[2]) and (amount)[\s\n]+円 when min = 1
\* (price_patterns[1]): the amount of the leftmost match, none as <<>>.
price_match(text, min) ==
  LET ms == {[g |-> g,
              m |-> search(Amount(g)
                           \o <<Item(Space, min, Unbounded), One("円")>>,
                           text)] : g \in 0..MaxGroups}
      hits == {x \in ms : x.m.found}
  IN IF hits = {} THEN <<>>
     ELSE LET x == CHOOSE h \in hits :
                     \A o \in hits : h.m.start <= o.m.start
          IN group(text, x.m, 1, 1 + 2 * x.g)

\* The price of full_text: the first of the three price_patterns to match.
price_of(full_text) ==
  IF price_match(full_text, 0) # <<>>
  THEN price_match(full_text, 0) \o <<"円">>
  ELSE IF price_match(full_text, 1) # <<>>
       THEN price_match(full_text, 1) \o <<"円">>
       ELSE <<>>

\* (\d+)\s*枚
quantity_pattern ==
  <<Item(Digit, 1, Unbounded), Item(Space, 0, Unbounded), One("枚")>>

\* (\d{2,4})[/\-年](\d{1,2})[/\-月](\d{1,2})
date_pattern ==
  <<Item(Digit, 2, 4), Item(Class({"/", "-", "U+5E74"}, FALSE), 1, 1),
    Item(Digit, 1, 2), Item(Class({"/", "-", "U+6708"}, FALSE), 1, 1),
    Item(Digit, 1, 2)>>

\* (\d{1,2}):(\d{2})
time_pattern == <<Item(Digit, 1, 2), One(":"), Item(Digit, 2, 2)>>

\* 残り\s*(\d+)\s*日
days_pattern ==
  <<One("残"), One("り"), Item(Space, 0, Unbounded),
    Item(Digit, 1, Unbounded), Item(Space, 0, Unbounded), One("日")>>

\* \d{4}/\d{1,2}/\d{1,2}
full_date == <<Item(Digit, 4, 4), One("/"), Item(Digit, 1, 2), One("/"),
               Item(Digit, 1, 2)>>

\* \s+\d{1,2}:\d{2}\s+([^\s]+)\s+(.+)
time_location_venue ==
  <<Item(Space, 1, Unbounded), Item(Digit, 1, 2), One(":"),
    Item(Digit, 2, 2), Item(Space, 1, Unbounded),
    Item(NonSpace, 1, Unbounded), Item(Space, 1, Unbounded),
    Item(Any, 1, Unbounded)>>

\* The pattern with the day of the week, \([^)]+\) after the date, and the
\* one without.
venue_pattern ==
  full_date \o <<One("("), Item(Class({")"}, TRUE), 1, Unbounded), One(")")>>
  \o time_location_venue

venue_pattern2 == full_date \o time_location_venue

\* s.zfill(2)
zfill2(s) == IF Len(s) < 2 THEN <<"0">> \o s ELSE s

\* s.strip()
strip(s) ==
  LET inner == {n \in 1..Len(s) : ~In(s[n], Space)} IN
  IF inner = {} THEN <<>>
  ELSE SubSeq(s, CHOOSE n \in inner : \A m \in inner : n <= m,
                 CHOOSE n \in inner : \A m \in inner : m <= n)

\* The first of vals, what a search gave line by line, that is not empty.
FirstOf(vals) ==
  LET hits == {n \in 1..Len(vals) : vals[n] # <<>>} IN
  IF hits = {} THEN <<>>
  ELSE vals[CHOOSE n \in hits : \A m \in hits : n <= m]

quantity_of(line) ==
  LET m == search(quantity_pattern, line) IN
  IF m.found THEN group(line, m, 1, 1) \o <<"枚">> ELSE <<>>

date_of(line) ==
  LET m == search(date_pattern, line)
      year == group(line, m, 1, 1)
  IN IF m.found
     THEN (IF Len(year) = 2 THEN <<"2", "0">> \o year ELSE year)
          \o <<"/">> \o zfill2(group(line, m, 3, 3))
          \o <<"/">> \o zfill2(group(line, m, 5, 5))
     ELSE <<>>

time_of(line) ==
  LET m == search(time_pattern, line) IN
  IF m.found THEN group(line, m, 1, 3) ELSE <<>>

days_remaining_of(line) ==
  LET m == search(days_pattern, line) IN
  IF m.found THEN <<"残", "り">> \o group(line, m, 4, 4) \o <<"日">>
  ELSE <<>>

\* The event name: the first of lines[:5] longer than 10 characters that is
\* no price, time or quantity line.
event_name(lines) ==
  LET first == SubSeq(lines, 1, IF Len(lines) < 5 THEN Len(lines) ELSE 5)
      name(line) ==
        IF /\ Len(line) > 10
           /\ price_match(line, 0) = <<>>
           /\ ~search(time_pattern, line).found
           /\ ~search(quantity_pattern, line).found
        THEN line ELSE <<>>
  IN FirstOf([n \in 1..Len(first) |-> name(first[n])])

\* location and venue: from the first line that matches one of the two
\* venue patterns, the first pattern tried first.
location_venue(lines) ==
  LET match(line) ==
        LET m1 == search(venue_pattern, line)
            m2 == search(venue_pattern2, line)
        IN IF m1.found
           THEN <<strip(group(line, m1, 14, 14)),
                  strip(group(line, m1, 16, 16))>>
           ELSE IF m2.found
                THEN <<strip(group(line, m2, 11, 11)),
                       strip(group(line, m2, 13, 13))>>
                ELSE <<>>
      found == FirstOf([n \in 1..Len(lines) |-> match(lines[n])])
  IN IF found = <<>> THEN <<<<>>, <<>>>> ELSE found

\* https://ticketjam.jp
Origin ==
  <<"h", "t", "t", "p", "s", ":", "/", "/", "t", "i", "c", "k", "e", "t", "j",
    "a", "m", ".", "j", "p">>

\* The url of an href: relative to the site when it starts with a slash,
\* itself when it starts with http, else below the site's root.
resolve(href) ==
  IF href[1] = "/" THEN Origin \o href
  ELSE IF Len(href) >= 4 /\ SubSeq(href, 1, 4) = <<"h", "t", "t", "p">>
       THEN href
       ELSE Origin \o <<"/">> \o href

\* The url of an element that is no link itself: that of the nearest
\* ancestor link with an href, else of the first descendant link whose href
\* holds /tickets/ or /ticket/, else empty.
url_of(element) ==
  LET marked == {n \in 1..Len(element.links) :
                   \/ Holds(element.links[n],
                               <<"/", "t", "i", "c", "k", "e", "t", "s", "/">>)
                   \/ Holds(element.links[n],
                               <<"/", "t", "i", "c", "k", "e", "t", "/">>)}
  IN IF element.parent_href # <<>> THEN resolve(element.parent_href)
     ELSE IF marked = {} THEN <<>>
          ELSE resolve(element.links[CHOOSE n \in marked :
                                       \A m \in marked : n <= m])

\* lines joined by newlines: element.get_text(separator='\n', strip=True),
\* and for the elements below element.get_text() without its outer blanks.
RECURSIVE join(_)
join(lines) ==
  IF lines = <<>> THEN <<>>
  ELSE IF Len(lines) = 1 THEN lines[1]
       ELSE lines[1] \o <<"\n">> \o join(Tail(lines))

\* How many blank-separated words s holds: len(s.split()).
Words(s) ==
  Cardinality({n \in 1..Len(s) :
                 /\ ~In(s[n], Space)
                 /\ n = 1 \/ In(s[n - 1], Space)})

\* _contains_ticket_data: a price, a plausible size, some structure.
contains_ticket_data(element) ==
  LET text == join(element.lines)
      has_price == price_match(text, 0) # <<>>
      reasonable_size == 50 < Len(text) /\ Len(text) < 5000
      has_structure == Len(element.lines) > 3 \/ Words(text) > 10
  IN has_price /\ reasonable_size /\ has_structure

\* _extract_ticket_from_element: the TicketInfo returned, none when no price
\* was found.
extract_ticket_from_element(element) ==
  LET full_text == join(element.lines)
      lines == element.lines
      url == url_of(element)
      price == price_of(full_text)
      name == event_name(lines)
      place == location_venue(lines)
      ticket ==
        [ticket_id |-> generate_ticket_id(<<>>, url), url |-> url,
         title |-> name, event_name |-> name, price |-> price,
         quantity |->
           FirstOf([n \in 1..Len(lines) |-> quantity_of(lines[n])]),
         date |->
           FirstOf([n \in 1..Len(lines) |-> date_of(lines[n])]),
         time |->
           FirstOf([n \in 1..Len(lines) |-> time_of(lines[n])]),
         days_remaining |->
           FirstOf([n \in 1..Len(lines) |-> days_remaining_of(lines[n])]),
         is_instant_buy |->
           \E n \in 1..Len(lines) : Holds(lines[n], <<"U+5373", "U+6C7A">>),
         location |-> place[1], venue |-> place[2], seat_info |-> <<>>,
         description |-> SubSeq(full_text, 1, IF Len(full_text) < 500
                                               THEN Len(full_text) ELSE 500),
         status |-> "active"]
  IN IF price # <<>> THEN {ticket} ELSE {}

\* A validation that asks for a price only.
is_valid_ticket_PriceOnly(ticket) == ticket.price # <<>>

\* _is_valid_ticket
is_valid_ticket(ticket) ==
  /\ ticket.price # <<>>
  /\ ticket.event_name # <<>> \/ ticket.description # <<>>

\* The lines of the listing of the end-to-end scenario.
ScenarioLines ==
  <<
    <<"人", "U+6C17", "ア", "ー", "テ", "ィ", "ス", "ト", "U+516C", "U+6F14">>,
    <<"2", "0", "2", "5", "/", "1", "2", "/", "2", "3", "(", "U+706B", ")",
      " ", "1", "9", ":", "0", "0", " ", "U+6771", "京", " ", "ガ", "ー", "デ",
      "ン", "シ", "ア", "タ", "ー">>,
    <<"1", ",", "0", "0", "0", "円">>,
    <<"2", "枚">>,
    <<"残", "り", "3", "日">>
  >>

\* An element of the document: its text lines, the href of its nearest
\* ancestor link (<<>> when it has none) and the hrefs of its descendant
\* links.  The listing of the scenario, with its link inside it.
Scenario ==
  [lines |-> ScenarioLines, parent_href |-> <<>>,
   links |-> <<
      <<"/", "t", "i", "c", "k", "e", "t", "/", "l", "i", "v", "e", "_", "d",
        "o", "m", "e", "s", "t", "i", "c", "/", "7", "9", "3", "8", "1", "5",
        "0", "-", "2", "5", "1", "1">>
   >>]

\* The same listing at another price.
Repriced ==
  [Scenario EXCEPT !.lines[3] =
    <<"1", ",", "2", "0", "0", "円">>]

\* Another listing, inside its link, with a trailing slash in the href.
Tour ==
  [lines |-> <<
      <<"人", "U+6C17", "ア", "ー", "テ", "ィ", "ス", "ト", "U+516C", "U+6F14", "ツ",
        "ア", "ー">>,
      <<"2", "0", "2", "6", "/", "0", "1", "/", "0", "4", " ", "1", "3", ":",
        "3", "0", " ", "U+5343", "U+8449", " ", "U+5E55", "U+5F35", "メ", "ッ",
        "セ">>,
      <<"1", "2", ",", "0", "0", "0", "円", "/", "枚">>,
      <<"U+5373", "U+6C7A", " ", "1", "枚">>
   >>,
   parent_href |->
    <<"h", "t", "t", "p", "s", ":", "/", "/", "t", "i", "c", "k", "e", "t",
      "j", "a", "m", ".", "j", "p", "/", "t", "i", "c", "k", "e", "t", "/",
      "l", "i", "v", "e", "_", "d", "o", "m", "e", "s", "t", "i", "c", "/",
      "7", "9", "3", "8", "1", "5", "1", "-", "2", "5", "1", "1", "/">>,
   links |-> <<>>]

\* A block that holds a price and is too short to be a container.
PriceTag ==
  [lines |-> <<
      <<"1", ",", "0", "0", "0", "円">>,
      <<"2", "枚">>
   >>,
   parent_href |-> <<>>, links |-> <<>>]

Elements == {Scenario, Repriced, Tour, PriceTag}

\* A document holds at most MaxElements block elements.
MaxElements == 2

\* The documents fetched: block elements side by side under body, in
\* document order, each with whether extracting from it raises.  No element
\* lies inside another, so the walk up from price elements (strategy 2)
\* finds no container that strategy 1 has not found.
Documents ==
  UNION {[1..n -> [element : Elements, raises : BOOLEAN]] :
           n \in 0..MaxElements}

\* tickets.append(ticket) over found, what each container gave in document
\* order: nothing, or one ticket.
appended(found) ==
  LET list[n \in 0..Len(found)] ==
        IF n = 0 THEN <<>>
        ELSE IF found[n] = {} THEN list[n - 1]
             ELSE Append(list[n - 1], CHOOSE t \in found[n] : TRUE)
  IN list[Len(found)]

\* The loop over ticket_containers: the tickets list before duplicates are
\* removed.  A container whose extraction raises, returns None or is not
\* valid adds nothing.
tickets_of(document) ==
  LET ticket_containers ==
        SelectSeq(document, LAMBDA d : contains_ticket_data(d.element))
  IN appended([n \in 1..Len(ticket_containers) |->
                 IF ticket_containers[n].raises THEN {}
                 ELSE {t \in extract_ticket_from_element(
                               ticket_containers[n].element) :
                         is_valid_ticket(t)}])

\* The pass without the two handlers: an extraction that raises ends it
\* with no list.
scrape_tickets_AbortsOnError(document) ==
  IF \E n \in 1..Len(document) :
       contains_ticket_data(document[n].element) /\ document[n].raises
  THEN <<>>
  ELSE unique_tickets(tickets_of(document))

\* scrape_tickets on a fetched document: the list returned.
scrape_tickets(document) == unique_tickets(tickets_of(document))

\* A call of scrape_tickets whose fetch has returned the document.
InitExtract ==
  /\ InitStore
  /\ db_file = TRUE
  /\ columns = Fresh
  /\ mon = IdleMonitor
  /\ now = 0
  /\ InitProc
  /\ call \in {[op |-> "scrape_tickets", document |-> d, done |-> FALSE,
                tickets |-> <<>>] : d \in Documents}

\* The call returns.
ScrapeReturns ==
  /\ ~call.done
  /\ call' = [call EXCEPT !.done = TRUE,
                          !.tickets = scrape_tickets(call.document)]
  /\ UNCHANGED <<tickets, price_history, now, proc, db_file, columns, mon>>

SpecExtract == InitExtract /\ [][ScrapeReturns]_vars

\* C26: the list a pass returns holds no ticket_id twice, holds for each id
\* of the pass's candidates the first candidate with that id in document
\* order, and keeps the candidates it holds in document order.
C26_FirstSeenDedup ==
  call.done =>
    LET ts == call.tickets
        cs == tickets_of(call.document)
        first(n) == \A m \in 1..(n - 1) : cs[m].ticket_id # cs[n].ticket_id
        firsts == {n \in 1..Len(cs) : first(n)}
    IN /\ \A m, n \in 1..Len(ts) :
            m # n => ts[m].ticket_id # ts[n].ticket_id
       /\ Len(ts) = Cardinality(firsts)
       /\ \A k \in 1..Len(ts) :
            \E n \in firsts :
              /\ ts[k] = cs[n]
              /\ Cardinality({m \in firsts : m < n}) = k - 1

C26_Witness ==
  /\ call.op = "scrape_tickets"
  /\ call.done
  /\ Len(tickets_of(call.document)) = 2
  /\ Len(call.tickets) = 1
  /\ tickets_of(call.document)[2].price # call.tickets[1].price

\* C28: for the document whose one element is the listing of the scenario,
\* the pass returns one candidate with ticket_id 7938150-2511, price
\* 1,000円, quantity 2枚, date 2025/12/23, time 19:00, location 東京, venue
\* ガーデンシアター, days_remaining 残り3日 and event_name
\* 人気アーティスト公演.
C28_EndToEndScenario ==
  (call.done /\ call.document = <<[element |-> Scenario, raises |-> FALSE]>>)
    => /\ Len(call.tickets) = 1
       /\ call.tickets[1].ticket_id =
            <<"7", "9", "3", "8", "1", "5", "0", "-", "2", "5", "1", "1">>
       /\ call.tickets[1].price =
            <<"1", ",", "0", "0", "0", "円">>
       /\ call.tickets[1].quantity =
            <<"2", "枚">>
       /\ call.tickets[1].date =
            <<"2", "0", "2", "5", "/", "1", "2", "/", "2", "3">>
       /\ call.tickets[1].time =
            <<"1", "9", ":", "0", "0">>
       /\ call.tickets[1].location =
            <<"U+6771", "京">>
       /\ call.tickets[1].venue =
            <<"ガ", "ー", "デ", "ン", "シ", "ア", "タ", "ー">>
       /\ call.tickets[1].days_remaining =
            <<"残", "り", "3", "日">>
       /\ call.tickets[1].event_name =
            <<"人", "U+6C17", "ア", "ー", "テ", "ィ", "ス", "ト", "U+516C",
              "U+6F14">>

\* C29: a container whose extraction raises adds no candidate to the list
\* returned, and every container whose extraction returns a valid candidate
\* has a candidate of its ticket_id in the list, whatever raised before or
\* after it.
C29_ExtractionErrorSkipsContainer ==
  call.done =>
    LET good == {n \in 1..Len(call.document) :
                   /\ contains_ticket_data(call.document[n].element)
                   /\ ~call.document[n].raises}
        of(n) == {t \in extract_ticket_from_element(call.document[n].element) :
                    is_valid_ticket(t)}
    IN /\ \A k \in 1..Len(call.tickets) :
            \E n \in good : call.tickets[k] \in of(n)
       /\ \A n \in good : \A t \in of(n) :
            \E k \in 1..Len(call.tickets) :
              call.tickets[k].ticket_id = t.ticket_id

C29_Witness ==
  /\ call.op = "scrape_tickets"
  /\ call.done
  /\ Len(call.document) = 2
  /\ call.document[1].raises
  /\ contains_ticket_data(call.document[1].element)
  /\ ~call.document[2].raises
  /\ Len(call.tickets) = 1
  /\ call.tickets[1] \in extract_ticket_from_element(call.document[2].element)

\* The TicketInfo values _is_valid_ticket is asked about: the candidate of
\* Tour with any price, event name and description, each possibly empty.
Candidate(price, name, description) ==
  [(CHOOSE t \in extract_ticket_from_element(Tour) : TRUE) EXCEPT
     !.price = price, !.event_name = name, !.title = name,
     !.description = description]

CandidateTickets ==
  {Candidate(p, e, d) :
     p \in PriceStrings \cup {<<>>},
     e \in {<<>>, Tour.lines[1], ScenarioLines[1]},
     d \in {<<>>, join(Tour.lines), join(ScenarioLines)}}

\* scrape_tickets' loop holds the ticket an extraction returned.
InitValidate ==
  /\ InitStore
  /\ db_file = TRUE
  /\ columns = Fresh
  /\ mon = IdleMonitor
  /\ now = 0
  /\ InitProc
  /\ call \in {[op |-> "_is_valid_ticket", ticket |-> t, done |-> FALSE,
                tickets |-> <<>>] : t \in CandidateTickets}

\* if ticket and self._is_valid_ticket(ticket): tickets.append(ticket)
Validate ==
  /\ ~call.done
  /\ call' = [call EXCEPT
                !.done = TRUE,
                !.tickets = IF is_valid_ticket(call.ticket)
                            THEN Append(call.tickets, call.ticket)
                            ELSE call.tickets]
  /\ UNCHANGED <<tickets, price_history, now, proc, db_file, columns, mon>>

SpecValidate == InitValidate /\ [][Validate]_vars

\* C27: every candidate the loop keeps has a non-empty price and a
\* non-empty event_name or description, and a candidate with a price, no
\* event name and no description is not kept.
C27_ValidationRejectsIncomplete ==
  call.done =>
    /\ \A n \in 1..Len(call.tickets) :
         /\ call.tickets[n].price # <<>>
         /\ \/ call.tickets[n].event_name # <<>>
            \/ call.tickets[n].description # <<>>
    /\ (/\ call.ticket.price # <<>>
        /\ call.ticket.event_name = <<>>
        /\ call.ticket.description = <<>>) => call.tickets = <<>>

C27_Witness ==
  /\ call.op = "_is_valid_ticket"
  /\ call.done
  /\ call.ticket.price # <<>>
  /\ call.ticket.event_name = <<>>
  /\ call.ticket.description = <<>>
  /\ call.tickets = <<>>

\* ---------------------------------------------- at-least-once notification

\* The bot process whose operator runs no command: the timer's cycles, each
\* ending in `await post_tickets()`.
NextLive ==
  \/ CycleStep
  \/ PassStep({"post_tickets"})

\* scraper.scrape_tickets fetches the page.
FetchSucceeds == Fetch /\ cyc'.fetch = "ok"

\* bot.get_channel finds the channel and the pass starts to send.
ChannelFound ==
  PassStart("post_tickets") /\ pass'["post_tickets"].pc = "sending"

\* channel.send returns for the ticket id.
SendSucceeds(id) ==
  /\ Send("post_tickets")
  /\ id \notin Range(pass["post_tickets"].ticket_ids_to_mark)
  /\ id \in Range(pass'["post_tickets"].ticket_ids_to_mark)

\* The event loop keeps running the timer and the coroutine it awaits;
\* fetches, the channel lookup and sends succeed again and again when they
\* are tried again and again.
Fairness ==
  /\ WF_vars(NextLive)
  /\ SF_vars(FetchSucceeds)
  /\ SF_vars(ChannelFound)
  /\ \A id \in Ids : SF_vars(SendSucceeds(id))

SpecLive == Init /\ [][NextLive]_vars /\ Fairness

\* The store holds an active unposted record of id at price p.
Waiting(id, p) ==
  \E r \in tickets :
    /\ r.ticket_id = id /\ r.price = p
    /\ r.status = "active" /\ ~r.posted

\* The record of id at price p is posted and the last pass sent it.
Delivered(id, p) ==
  /\ id \in last_sent
  /\ \E r \in tickets : r.ticket_id = id /\ r.price = p /\ r.posted

\* The listing is not on a fetched page at price p, or the store holds no
\* record of id at price p any more.
Unlisted(id, p) ==
  \/ /\ cyc.pc = "checking"
     /\ cyc.fetch = "ok"
     /\ \A n \in 1..Len(cyc.tickets) :
          ~(cyc.tickets[n].ticket_id = id /\ cyc.tickets[n].price = p)
  \/ \A r \in tickets : ~(r.ticket_id = id /\ r.price = p)

C39_FirstSeenNeverChanges ==
  /\ [](\A r \in tickets : r.first_seen <= r.last_seen)
  /\ [][\A r \in tickets : \A q \in Existing(tickets', r.ticket_id) :
          q.first_seen = r.first_seen]_vars

\* An upsert has updated a record that was inserted at an earlier reading of
\* the clock.
C39_Witness ==
  /\ call.op = "upsert"
  /\ ~call.is_new
  /\ \E r \in Existing(tickets, call.ticket.ticket_id) :
       r.first_seen < r.last_seen

\* --------------------------------------- the dictionaries of unposted

\* What SQLite holds in column col of the row r: the BOOLEAN columns hold the
\* integers 0 and 1, every other column the text that was bound.
Stored(r, col) ==
  IF col \in {"is_instant_buy", "posted"}
  THEN <<"INTEGER", IF r[col] THEN 1 ELSE 0>>
  ELSE <<"TEXT", r[col]>>

\* A row of SELECT * FROM tickets: the values of r in the order of cols.
SelectStar(r, cols) == [n \in 1..Len(cols) |-> Stored(r, cols[n])]

\* bool(v) of a fetched value: an integer is true unless it is 0, and the
\* text CURRENT_TIMESTAMP wrote is not empty.
bool(v) == IF v[1] = "INTEGER" THEN v[2] # 0 ELSE TRUE

\* ticket_dict of get_unposted_tickets: each key from a fixed position of
\* the row (row[0] is row[1] here).
ticket_dict(row) ==
  [ticket_id |-> row[1], title |-> row[2], event_name |-> row[3],
   date |-> row[4], time |-> row[5], venue |-> row[6], location |-> row[7],
   price |-> row[8], quantity |-> row[9], seat_info |-> row[10],
   description |-> row[11], days_remaining |-> row[12],
   is_instant_buy |-> bool(row[13]), url |-> row[14],
   first_seen |-> row[15], last_seen |-> row[16], status |-> row[17],
   created_at |-> row[18], updated_at |-> row[19],
   posted |-> bool(row[20])]

\* The ticket dictionaries get_unposted_tickets(status_filter) returns from
\* a table of the columns cols.
unposted_tickets(T, cols, status_filter) ==
  {ticket_dict(SelectStar(r, cols)) :
     r \in get_unposted_tickets(T, status_filter)}

\* The database file is a new one or one migrated by ALTER TABLE.
InitUnposted ==
  /\ InitStore
  /\ db_file = TRUE
  /\ columns \in {Fresh, Migrated}
  /\ mon = IdleMonitor
  /\ now = 0
  /\ call = NoCall
  /\ InitProc

\* A client calls get_unposted_tickets(status_filter).
GetUnposted(status_filter) ==
  /\ call' = [op |-> "get_unposted_tickets",
              status_filter |-> status_filter,
              returned |-> unposted_tickets(tickets, columns, status_filter)]
  /\ UNCHANGED <<tickets, price_history, now, proc, db_file, columns, mon>>

NextUnposted ==
  \/ \E ticket \in Candidates : Upsert(ticket)
  \/ \E ids \in (SUBSET Ids) \ {{}} : MarkPosted(ids)
  \/ Tick
  \/ \E f \in Filters : GetUnposted(f)

SpecUnposted == InitUnposted /\ [][NextUnposted]_vars

\* The keys of a ticket dictionary whose value is the column's text.
TextKeys ==
  ({FirstColumns[n] : n \in 1..Len(FirstColumns)}
     \cup {"created_at", "updated_at"}) \ {"is_instant_buy"}

\* C37: every record get_unposted_tickets returns reports each named field
\* with the value stored in the column of that name, on a table created by
\* init_database and on one migrated by ALTER TABLE: posted is false, and
\* created_at and updated_at are the stored stamps.
C37_UnpostedFieldsByName ==
  call.op = "get_unposted_tickets" =>
    \A d \in call.returned :
      \E r \in tickets :
        /\ d.ticket_id = Stored(r, "ticket_id")
        /\ \A k \in TextKeys : d[k] = Stored(r, k)
        /\ d.is_instant_buy = r.is_instant_buy
        /\ d.posted = r.posted
        /\ d.posted = FALSE

\* -------------------------------------------------- interleaved passes

\* The pass p hands the record id to its channel: channel.send returns and
\* the id is appended to ticket_ids_to_mark.
Handed(p, id) ==
  /\ pass[p].pc = "sending"
  /\ pass'[p].pc = "sending"
  /\ pass'[p].ticket_ids_to_mark = Append(pass[p].ticket_ids_to_mark, id)

\* C36: under every interleaving of post_tickets with post_unposted_tickets,
\* a record is handed to a sink at most once per price: a send that succeeds
\* is of a record whose latest price has not been sent yet, also when the
\* other pass stands between reading the unposted list and marking it.
C36_InterleavedPassesSendOnce ==
  [][\A p \in Passes : \A id \in Ids :
       Handed(p, id) => id \in undelivered]_vars

\* ------------------------------------------------ get_bot_notifications

\* The clock of get_bot_notifications counts minutes over MaxHours hours.
MaxHours == 2

\* datetime.minute
minute(t) == t % 60

\* datetime.replace(minute = m): the same hour (and second), the minute m.
replace_minute(t, m) == (t - minute(t)) + m

\* max(0, a - b) on the integers.
max0(a, b) == IF a > b THEN a - b ELSE 0

\* since_time: datetime.now().replace(minute=max(0, minute - since_minutes)).
since_time(current_time, since_minutes) ==
  replace_minute(current_time, max0(minute(current_time), since_minutes))

\* get_bot_notifications: the rows of new_tickets, those of SELECT * FROM
\* tickets WHERE first_seen > since_time AND status = 'active', and
\* since_time.
get_bot_notifications(T, current_time, since_minutes) ==
  [new_tickets |->
     {r \in T : r.first_seen > since_time(current_time, since_minutes)
                  /\ r.status = "active"},
   since_time |-> since_time(current_time, since_minutes)]

\* The values of since_minutes: none, one minute, half an hour, the default
\* of an hour, and more than an hour.
SinceMinutes == {0, 1, 30, 60, 90}

\* The store holds one record, first seen at some minute up to now.
InitNotifications ==
  /\ now \in 0..(MaxHours * 60 - 1)
  /\ tickets \in
       {{[NewRow(TicketInfo("A", "1,000円", "a"), first_seen)
            EXCEPT !.status = status]} :
          first_seen \in 0..now, status \in {"active", "sold"}}
  /\ price_history = <<>>
  /\ db_file = TRUE
  /\ columns = Fresh
  /\ mon = IdleMonitor
  /\ call = NoCall
  /\ InitProc

\* A client calls get_bot_notifications(since_minutes = N).
GetNotifications(since_minutes) ==
  LET res == get_bot_notifications(tickets, now, since_minutes) IN
  /\ call.op = "none"
  /\ call' = [op |-> "get_bot_notifications",
              since_minutes |-> since_minutes,
              new_tickets |-> res.new_tickets,
              since_time |-> res.since_time]
  /\ UNCHANGED <<tickets, price_history, now, proc, db_file, columns, mon>>

NextNotifications == \E N \in SinceMinutes : GetNotifications(N)

SpecNotifications == InitNotifications /\ [][NextNotifications]_vars

\* C34: get_bot_notifications(since_minutes = N) returns exactly the active
\* records whose first_seen lies within the last N minutes before the call,
\* for every N >= 0 and every minute of the hour, N larger than the current
\* minute of the hour included.
C34_NotificationWindow ==
  call.op = "get_bot_notifications" =>
    call.new_tickets =
      {r \in tickets : /\ r.status = "active"
                       /\ r.first_seen + call.since_minutes > now}

\* -------------------------------------- the walk up from a price element

\* A price element lies at most MaxDepth elements below body, itself counted.
MaxDepth == 6

\* An element on the way up: its tag and what _contains_ticket_data gives on
\* it.  Strategy 2 runs when strategy 1 found no container, so no div,
\* article, section or li of the document passes the test.
Nodes ==
  {n \in [name : {"span", "div"}, contains_ticket_data : BOOLEAN] :
     n.name = "div" => ~n.contains_ticket_data}

\* The elements from a price element up to body: chain[1] is the price
\* element, chain[k + 1] the parent of chain[k], the last one body.
Chains ==
  UNION {{c \o <<[name |-> "body", contains_ticket_data |-> b]>> :
            c \in [1..n -> Nodes], b \in BOOLEAN} : n \in 1..MaxDepth}

\* `for level in range(5)` from the container chain[k]: the elements it
\* tests and the one it appends to ticket_containers (0 for none).
RECURSIVE walk(_, _, _)
walk(chain, level, k) ==
  IF level = 5 THEN [examined |-> {}, container |-> 0]
  ELSE IF k <= Len(chain) /\ chain[k].name # "body"
       THEN IF chain[k].contains_ticket_data
            THEN [examined |-> {k}, container |-> k]
            ELSE LET up == walk(chain, level + 1, k + 1)
                 IN [examined |-> {k} \cup up.examined,
                     container |-> up.container]
       ELSE [examined |-> {}, container |-> 0]

\* Strategy 2 has found a price element.
InitWalk ==
  /\ InitStore
  /\ db_file = TRUE
  /\ columns = Fresh
  /\ mon = IdleMonitor
  /\ now = 0
  /\ InitProc
  /\ call \in {[op |-> "walk", chain |-> c, done |-> FALSE,
                examined |-> {}, container |-> 0] : c \in Chains}

\* The loop over the levels ends.
WalkReturns ==
  LET res == walk(call.chain, 0, 1) IN
  /\ ~call.done
  /\ call' = [call EXCEPT !.done = TRUE, !.examined = res.examined,
                          !.container = res.container]
  /\ UNCHANGED <<tickets, price_history, now, proc, db_file, columns, mon>>

SpecWalk == InitWalk /\ [][WalkReturns]_vars

\* The elements of the chain up to `levels` levels above the price element
\* and below body.
Within(chain, levels) ==
  {k \in 1..Len(chain) :
     k - 1 <= levels /\ \A m \in 1..k : chain[m].name # "body"}

\* C33: for a price element the walk covers the ancestors up to 5 levels
\* above it and selects the first element on the way that satisfies the
\* container test; it examines no ancestor more than 5 levels up and
\* nothing from body on.
C33_FallbackWalk ==
  call.done =>
    LET reach == Within(call.chain, 5)
        fit == {k \in reach : call.chain[k].contains_ticket_data}
    IN /\ call.examined \subseteq reach
       /\ call.container =
            IF fit = {} THEN 0
            ELSE CHOOSE k \in fit : \A m \in fit : k <= m

\* ------------------------------------------- ticketjam.py bot / monitor

\* The URLs of `monitor url1 url2`: two event pages.
urls == <<"event/1", "event/2">>

\* The ticket_ids the listings of each page have: a listing's id is the last
\* segment of its own URL, and a listing is on one event page.
SourceIds == <<{"A"}, {"B"}>>

\* What scrape_tickets(urls[n]) returns on a page it could fetch.
FetchedFrom(n) ==
  {ts \in Fetched : \A k \in 1..Len(ts) : ts[k].ticket_id \in SourceIds[n]}

\* run_continuous_bot has built its scraper and enters `while True`.
StartedMonitor == [IdleMonitor EXCEPT !.pc = "check"]

\* `for url in urls` of run_bot_check: the next url's
\* scrape_and_update_database starts, or the loop ends, bot_check returns
\* and run_continuous_bot sleeps for check_interval.
NextUrl ==
  /\ mon.pc = "check"
  /\ mon' = IF mon.url <= Len(urls)
            THEN [StartedMonitor EXCEPT !.pc = "fetching", !.url = mon.url]
            ELSE [StartedMonitor EXCEPT !.pc = "sleeping", !.url = mon.url]
  /\ UNCHANGED <<tickets, price_history, now, call, proc, db_file, columns>>

\* self.scrape_tickets(url): [] on a RequestException, else the candidates;
\* `if not tickets` returns the summary without success, and run_bot_check
\* goes on to time.sleep(2).
MonitorFetch ==
  /\ mon.pc = "fetching"
  /\ \/ mon' = [mon EXCEPT !.pc = "pausing", !.error = "fetch"]
     \/ \E ts \in FetchedFrom(mon.url) :
          mon' = [mon EXCEPT !.tickets = ts,
                             !.pc = IF ReturnsEarly(ts) THEN "pausing"
                                    ELSE "upserting"]
  /\ UNCHANGED <<tickets, price_history, now, call, proc, db_file, columns>>

\* One iteration of `for ticket in tickets` of scrape_and_update_database.
MonitorUpsert ==
  /\ mon.pc = "upserting"
  /\ LET ticket == mon.tickets[Len(mon.current_ticket_ids) + 1]
         res == insert_or_update_ticket(tickets, price_history, ticket, now)
         ids == Append(mon.current_ticket_ids, ticket.ticket_id)
     IN /\ Len(Recorded(res.price_history)) <= MaxHistory
        /\ tickets' = res.tickets
        /\ price_history' = res.price_history
        /\ mon' = [mon EXCEPT !.current_ticket_ids = ids,
                              !.pc = IF Len(ids) = Len(mon.tickets)
                                     THEN "pruning" ELSE "upserting"]
  /\ UNCHANGED <<now, call, proc, db_file, columns>>

\* insert_or_update_ticket raises a store error: it leaves
\* scrape_and_update_database, `except Exception` of run_bot_check prints it
\* and the loop goes on with the next url.
MonitorUpsertFails ==
  /\ mon.pc = "upserting"
  /\ mon' = [StartedMonitor EXCEPT !.url = mon.url + 1, !.error = "store"]
  /\ UNCHANGED <<tickets, price_history, now, call, proc, db_file, columns>>

\* self.db.delete_removed_tickets(current_ticket_ids), then the summary and
\* time.sleep(2).
MonitorPrune ==
  /\ mon.pc = "pruning"
  /\ tickets' = delete_removed_tickets(
                  tickets, PruneIds(mon.current_ticket_ids)).tickets
  /\ mon' = [mon EXCEPT !.pc = "pausing", !.pruned = TRUE]
  /\ UNCHANGED <<price_history, now, call, proc, db_file, columns>>

\* time.sleep(2) returns.
Pause ==
  /\ mon.pc = "pausing"
  /\ mon' = [mon EXCEPT !.pc = "check", !.url = mon.url + 1]
  /\ UNCHANGED <<tickets, price_history, now, call, proc, db_file, columns>>

\* time.sleep(check_interval) returns: the next bot_check().
Wake ==
  /\ mon.pc = "sleeping"
  /\ mon' = StartedMonitor
  /\ UNCHANGED <<tickets, price_history, now, call, proc, db_file, columns>>

\* Ctrl+C: KeyboardInterrupt is raised where the main thread stands, passes
\* `except Exception` and `except requests.RequestException`, and ends
\* run_continuous_bot in `except KeyboardInterrupt`.
Interrupt ==
  /\ mon.pc \notin {"off", "stopped"}
  /\ mon' = [mon EXCEPT !.pc = "stopped"]
  /\ UNCHANGED <<tickets, price_history, now, call, proc, db_file, columns>>

\* The steps of run_continuous_bot that no signal interrupts.
MonitorStep ==
  \/ NextUrl
  \/ MonitorFetch
  \/ MonitorUpsert
  \/ MonitorUpsertFails
  \/ MonitorPrune
  \/ Pause
  \/ Wake

InitMonitor ==
  /\ tickets = {}
  /\ price_history = <<>>
  /\ db_file = TRUE
  /\ columns = Fresh
  /\ mon = StartedMonitor
  /\ now = 0
  /\ call = NoCall
  /\ InitProc

NextMonitor == MonitorStep \/ Interrupt

\* `monitor url1 url2` until it is interrupted.
SpecMonitor == InitMonitor /\ [][NextMonitor]_vars

\* C35: a cycle for one source deletes no record of another source: the
\* records whose ticket_id is not of the pages of the url in hand are in
\* the store after the cycle's prune as they were before it, first_seen and
\* posted included.
C35_CycleKeepsOtherSources ==
  [][MonitorPrune =>
       \A r \in tickets :
         r.ticket_id \notin SourceIds[mon.url] => r \in tickets']_vars

\* C32: an interrupt received while a cycle is in flight lets the cycle
\* finish: when the monitor has stopped, no cycle has upserted candidates
\* without having run its prune.
C32_InterruptLetsCycleFinish ==
  mon.pc = "stopped" => (mon.current_ticket_ids = <<>> \/ mon.pruned)


\* ------------------------------------------------------- the two schedules

\* Either schedule of the repository is running: bot.py's timer
\* (mon.pc = "off") or ticketjam.py's monitor.
InitSchedules ==
  /\ tickets = {}
  /\ price_history = <<>>
  /\ db_file = TRUE
  /\ columns = Fresh
  /\ mon \in {IdleMonitor, StartedMonitor}
  /\ now = 0
  /\ call = NoCall
  /\ InitProc

\* bot.py's event loop runs the timer and the pass it awaits.
TimerStep == mon.pc = "off" /\ NextLive

NextSchedules == TimerStep \/ MonitorStep

\* The process is not stopped and its loop keeps taking its steps: the event
\* loop runs the timer's coroutine, `while True` runs bot_check and sleeps.
SpecSchedules ==
  InitSchedules /\ [][NextSchedules]_vars /\ WF_vars(NextSchedules)

\* A cycle of bot.py's timer has met a fetch error, a store error or a
\* failed send.
TimerError ==
  \/ cyc.pc = "checking" /\ cyc.fetch = "failed"
  \/ cyc.pc = "failed"
  \/ pass["post_tickets"].pc = "sending" /\ pass["post_tickets"].failed # {}

\* C31: no error in a cycle is fatal to the schedule: a cycle of the timer
\* that met a fetch error, a store error or a failed send leads to the
\* timer's next cycle fetching, and a url's cycle of the monitor that met a
\* fetch error or a store error leads to the next bot_check fetching its
\* first url.
C31_ErrorsNotFatal ==
  /\ TimerError ~> (cyc.pc = "fetching")
  /\ (mon.error # "none") ~> (mon.pc = "fetching" /\ mon.url = 1)

\* The timer has started a new cycle after a pass in which a send failed.
C31_Witness ==
  /\ cyc.pc = "fetching"
  /\ pass["post_tickets"].failed # {}

====
